---- MODULE Spec2Model ----
(***************************************************************************)
(* State-machine model of the snowflake_connector package:                  *)
(*   connection.py          SnowflakeConnection (the Session)               *)
(*   data_retriever.py      DataRetriever (materialized and lazy retrieval) *)
(*   connection_manager.py  ConnectionManager                               *)
(*   __init__.py            the module-level facade                         *)
(* The vendor driver is the environment: opening a connection, executing a  *)
(* statement and fetching may fail, and an open connection may die.         *)
(* One action is one call of the public API (a whole handler); a lazy batch *)
(* sequence is a generator whose pulls are separate actions.                *)
(***************************************************************************)
EXTENDS Integers, Sequences, FiniteSets, TLC

\* ---------------------------------------------------------------- bounds
MaxRows == 5
MaxK == 2
MaxOpens == 2
MaxSessions == 2
MaxGens == 1
\* The Session objects made where the arguments of connect() vary.
OneSession == 1
\* The result and batch sizes drawn for calls made through the module-level facade.
FacadeMaxRows == 1
FacadeMaxK == 1

\* The lazy sequences a consumer holds at once when it interleaves them, and the
\* result sizes drawn for them.
TwoGens == 2
TwoMaxRows == 3

\* Python's None, for an absent handle, manager, cursor or chunk_size.
None == 0

\* Python's None where the other values are strings (an argument, a parameter
\* of the Session).
NoneStr == "None"

VARIABLES
    manager,         \* __init__._connection_manager: None, or the Session its manager holds
    sessions,        \* the SnowflakeConnection objects constructed so far
    handles,         \* one record per driver open call, in call order
    gens,            \* the lazy batch sequences (generator objects)
    last,            \* the call that returned last: its arguments, outcome and driver calls
    connectedSince,  \* history: a facade connect() succeeded since start / the last disconnect()
    tracebacks       \* the Sessions in the tracebacks of the exceptions the caller still holds

vars == <<manager, sessions, handles, gens, last, connectedSince, tracebacks>>

Min(a, b) == IF a < b THEN a ELSE b

Ceil(n, k) == (n + k - 1) \div k

RECURSIVE Flatten(_)
Flatten(ss) == IF ss = <<>> THEN <<>> ELSE Head(ss) \o Flatten(Tail(ss))

\* The calls of `calls` named c.
CallsOf(calls, c) == SelectSeq(calls, LAMBDA x : x.c = c)

Count(calls, c) == Len(CallsOf(calls, c))

\* Position of the first call named c (0 when there is none).
FirstPos(calls, c) ==
    IF \E i \in 1..Len(calls) : calls[i].c = c
    THEN CHOOSE i \in 1..Len(calls) :
             calls[i].c = c /\ \A j \in 1..(i - 1) : calls[j].c # c
    ELSE 0

\* ------------------------------------------------------- the driver boundary
\* One call the library makes on the driver: its name, the handle it is made on,
\* whether it returned normally, and the statement it carries ("" for none).
Call(c, h, ok, sql) == [c |-> c, h |-> h, ok |-> ok, sql |-> sql]

\* cursor.description of the modelled result: the ordered column metadata.
Description == <<"A", "B">>

\* The i-th row the cursor delivers: a fixed-arity tuple of column values.
Row(i) == <<i, 10 * i>>

\* The cursor's delivered row sequence for a result of n rows.
Rows(n) == [i \in 1..n |-> Row(i)]

\* A cursor bound to one executed query: the handle, the result size, the rows
\* already fetched, and the number of close() calls made on it.
Cursor(h, n) == [h |-> h, n |-> n, pos |-> 0, closes |-> 0]

NoCursor == [h |-> None, n |-> 0, pos |-> 0, closes |-> 0]

\* cursor.fetchmany(k): up to k next rows, in delivery order; empty at the end.
fetchmany(cur, k) ==
    [i \in 1..Min(k, cur.n - cur.pos) |-> Row(cur.pos + i)]

\* snowflake.connector.connect(**params): a successful open returns a new
\* handle, recorded with the Session that opened it; a failed one returns none.
DriverOpen(hs, s, openOk) ==
    IF openOk THEN Append(hs, [session |-> s, alive |-> TRUE, closes |-> 0]) ELSE hs

\* snowflake.connector.connect(**connection_params), as the driver sees it.
OpenCall(h, ok, params) ==
    [c |-> "open", h |-> h, ok |-> ok, sql |-> "", params |-> params]

\* ------------------------------------------------- connection.py: the Session
\* The arguments of SnowflakeConnection(...) before any is given: the defaults
\* of its signature for the optional ones, nothing for the required ones.
InitDefaults ==
    [account |-> NoneStr, user |-> NoneStr, password |-> NoneStr,
     warehouse |-> NoneStr, database |-> NoneStr, schema |-> NoneStr,
     role |-> NoneStr, authenticator |-> "snowflake"]

\* The arguments with which the caller of the direct API constructs its Session.
DirectArgs ==
    [InitDefaults EXCEPT !.account = "XY12345", !.user = "alice",
                         !.password = "hunter2"]

\* SnowflakeConnection.__init__: the arguments are stored; no handle, not
\* connected.
SnowflakeConnection_init(owner, a) ==
    [owner |-> owner, connection |-> None, is_connected |-> FALSE,
     account |-> a.account, user |-> a.user, password |-> a.password,
     warehouse |-> a.warehouse, database |-> a.database, schema |-> a.schema,
     role |-> a.role, authenticator |-> a.authenticator]

NoSession == SnowflakeConnection_init("none", InitDefaults)

\* Python's truth test of an optional parameter: None and "" are false.
Truthy(v) == v # NoneStr /\ v # ""

\* connect(): the parameter set built for the driver's open; an optional
\* field is added only when its value is true.
connection_params(sess) ==
    [f \in {"account", "user", "password", "authenticator"}
            \cup {o \in {"warehouse", "database", "schema", "role"} : Truthy(sess[o])}
        |-> sess[f]]

\* connect(): the cached-handle test.
HasCachedNever(sess) == FALSE

HasCached(sess) == sess.is_connected /\ sess.connection # None

\* connect(): the liveness probe, self._connection.cursor().execute("SELECT 1").
\* The probe cursor is not closed by the code.
ProbeCalls(h, ok) ==
    <<Call("cursor", h, TRUE, "SELECT 1"), Call("execute", h, ok, "SELECT 1")>>

\* connect(): the except branch of the probe; the dead handle is dropped, and no
\* close() is called on it.
DropDead(sess) == [sess EXCEPT !.is_connected = FALSE, !.connection = None]

\* A variant of the open that logs a failure and returns no handle instead of
\* re-raising the driver's error.
OpenNewSwallows(sess, hs, s, openOk, calls) ==
    LET h == IF openOk THEN Len(hs) + 1 ELSE None
        hs2 == DriverOpen(hs, s, openOk)
        calls2 == Append(calls, OpenCall(h, openOk, connection_params(sess)))
    IN  IF openOk
        THEN [sess |-> [sess EXCEPT !.connection = h, !.is_connected = TRUE],
              hs |-> hs2, calls |-> calls2, outcome |-> "ok", conn |-> h]
        ELSE [sess |-> [sess EXCEPT !.connection = None, !.is_connected = FALSE],
              hs |-> hs2, calls |-> calls2, outcome |-> "ok", conn |-> None]

\* connect(): open a new handle with the stored parameters; on failure clear
\* the state and re-raise.
OpenNew(sess, hs, s, openOk, calls) ==
    LET h == IF openOk THEN Len(hs) + 1 ELSE None
        hs2 == DriverOpen(hs, s, openOk)
        calls2 == Append(calls, OpenCall(h, openOk, connection_params(sess)))
    IN  IF openOk
        THEN [sess |-> [sess EXCEPT !.connection = h, !.is_connected = TRUE],
              hs |-> hs2, calls |-> calls2, outcome |-> "ok", conn |-> h]
        ELSE [sess |-> [sess EXCEPT !.connection = None, !.is_connected = FALSE],
              hs |-> hs2, calls |-> calls2, outcome |-> "OpenError", conn |-> None]

\* A variant that gives up when the probe fails, without reopening.
OnDeadProbeRaise(sess, hs, s, openOk, calls) ==
    [sess |-> DropDead(sess), hs |-> hs, calls |-> calls,
     outcome |-> "OpenError", conn |-> None]

\* connect(): what follows a failed probe: drop the handle, then open a new one.
OnDeadProbe(sess, hs, s, openOk, calls) ==
    OpenNew(DropDead(sess), hs, s, openOk, calls)

\* SnowflakeConnection.connect(): reuse the cached handle when its probe
\* succeeds, else open. openOk is the driver's answer should an open be made.
SnowflakeConnection_connect(sess, hs, s, openOk) ==
    IF HasCached(sess)
    THEN LET h == sess.connection
             ok == hs[h].alive
         IN  IF ok
             THEN [sess |-> sess, hs |-> hs, calls |-> ProbeCalls(h, TRUE),
                   outcome |-> "ok", conn |-> h]
             ELSE OnDeadProbe(sess, hs, s, openOk, ProbeCalls(h, FALSE))
    ELSE OpenNew(sess, hs, s, openOk, <<>>)

\* Whether connect() on sess would call the driver's open.
WouldOpen(sess, hs) == ~(HasCached(sess) /\ hs[sess.connection].alive)

\* A variant of disconnect() without the try/except/finally around close().
disconnect_unguarded(sess, hs, closeRaises) ==
    IF sess.connection # None
    THEN LET h == sess.connection
         IN  [sess |-> IF closeRaises THEN sess
                       ELSE [sess EXCEPT !.connection = None, !.is_connected = FALSE],
              hs |-> [hs EXCEPT ![h].closes = @ + 1],
              calls |-> <<Call("close", h, ~closeRaises, "")>>,
              outcome |-> IF closeRaises THEN "DriverError" ELSE "ok"]
    ELSE [sess |-> sess, hs |-> hs, calls |-> <<>>, outcome |-> "ok"]

\* A variant of disconnect() whose finally block clears the handle and leaves
\* the connected flag as it was.
disconnect_keeps_flag(sess, hs, closeRaises) ==
    IF sess.connection # None
    THEN LET h == sess.connection
         IN  [sess |-> [sess EXCEPT !.connection = None],
              hs |-> [hs EXCEPT ![h].closes = @ + 1],
              calls |-> <<Call("close", h, ~closeRaises, "")>>,
              outcome |-> "ok"]
    ELSE [sess |-> sess, hs |-> hs, calls |-> <<>>, outcome |-> "ok"]

\* SnowflakeConnection.disconnect(): close the handle if present, swallowing a
\* close-time error, and clear the state in the finally block.
SnowflakeConnection_disconnect(sess, hs, closeRaises) ==
    IF sess.connection # None
    THEN LET h == sess.connection
         IN  [sess |-> [sess EXCEPT !.connection = None, !.is_connected = FALSE],
              hs |-> [hs EXCEPT ![h].closes = @ + 1],
              calls |-> <<Call("close", h, ~closeRaises, "")>>,
              outcome |-> "ok"]
    ELSE [sess |-> sess, hs |-> hs, calls |-> <<>>, outcome |-> "ok"]

\* cursor.execute(query, **kwargs), as the driver sees it: the statement and
\* the keyword options it is given.
ExecuteCall(h, ok, sql, opts) ==
    [c |-> "execute", h |-> h, ok |-> ok, sql |-> sql, opts |-> opts]

\* execute_query(query) called with no keyword options.
NoOpts == <<>>

\* A variant of execute_query() that calls cursor.execute(query) and leaves
\* the keyword options out.
execute_without_opts(c, execOk, n, opts) ==
    IF c.outcome # "ok"
    THEN [sess |-> c.sess, hs |-> c.hs, calls |-> c.calls,
          outcome |-> c.outcome, cur |-> NoCursor]
    ELSE [sess |-> c.sess, hs |-> c.hs,
          calls |-> c.calls \o <<Call("cursor", c.conn, TRUE, "query"),
                                 ExecuteCall(c.conn, execOk, "query", NoOpts)>>,
          outcome |-> IF execOk THEN "ok" ELSE "ExecError",
          cur |-> IF execOk THEN Cursor(c.conn, n) ELSE NoCursor]

\* execute_query(query, **opts) once get_connection() has answered (c is what
\* connect() did): its error goes to the caller, else a cursor is made and the
\* query executed with the options.
execute_with(c, execOk, n, opts) ==
    IF c.outcome # "ok"
    THEN [sess |-> c.sess, hs |-> c.hs, calls |-> c.calls,
          outcome |-> c.outcome, cur |-> NoCursor]
    ELSE [sess |-> c.sess, hs |-> c.hs,
          calls |-> c.calls \o <<Call("cursor", c.conn, TRUE, "query"),
                                 ExecuteCall(c.conn, execOk, "query", opts)>>,
          outcome |-> IF execOk THEN "ok" ELSE "ExecError",
          cur |-> IF execOk THEN Cursor(c.conn, n) ELSE NoCursor]

\* execute_query(query) with no keyword options, as the retrieval methods of
\* the model call it.
execute_on(c, execOk, n) == execute_with(c, execOk, n, NoOpts)

\* SnowflakeConnection.execute_query(): get_connection() (the connect logic),
\* then a new cursor, then cursor.execute(query). The cursor is returned open;
\* when execute raises, the cursor just opened is not closed.
SnowflakeConnection_execute_query(sess, hs, s, openOk, execOk, n) ==
    execute_on(SnowflakeConnection_connect(sess, hs, s, openOk), execOk, n)

\* ------------------------------------------- data_retriever.py: DataRetriever
\* pd.DataFrame(rows, columns=...): a table of rows under ordered column names.
DataFrame(rows, columns) == [columns |-> columns, rows |-> rows]

\* pd.concat(chunks, ignore_index=True): the frames' rows in order under the
\* first frame's columns; pandas raises ValueError for an empty list of frames.
pd_concat(frames) ==
    IF frames = <<>>
    THEN [outcome |-> "ValueError", value |-> DataFrame(<<>>, <<>>)]
    ELSE [outcome |-> "ok",
          value |-> DataFrame(Flatten([i \in 1..Len(frames) |-> frames[i].rows]),
                              frames[1].columns)]

\* dict(zip(column_names, row)): a mapping from column name to value; zip stops
\* at the shorter argument and a repeated name keeps its last value.
DictRow(columns, row) ==
    LET m == Min(Len(columns), Len(row))
    IN  [c \in {columns[j] : j \in 1..m} |->
            row[CHOOSE j \in 1..m :
                    columns[j] = c /\ \A j2 \in 1..m : columns[j2] = c => j2 <= j]]

\* [dict(zip(column_names, row)) for row in rows]
DictRows(columns, rows) == [i \in 1..Len(rows) |-> DictRow(columns, rows[i])]

\* cursor.close() as the retrieval methods call it in their finally blocks.
CloseCursorNot(cur) == cur

CloseCursor(cur) == [cur EXCEPT !.closes = @ + 1]

\* A variant of the loop exit test that stops at the first short chunk.
LoopDoneShort(rows, k) == Len(rows) < k

\* The exit test of the chunked loops of fetch_pandas / fetch_dict:
\* `if not rows: break`.
LoopDone(rows, k) == rows = <<>>

\* The chunked loop of fetch_pandas / fetch_dict: fetchmany(chunk_size) until an
\* empty chunk, collecting the chunks in order. The failAt-th fetchmany raises
\* (0: none does). fetches counts the fetchmany calls made.
RECURSIVE chunk_loop(_, _, _, _, _)
chunk_loop(cur, k, failAt, fetches, chunks) ==
    IF fetches + 1 = failAt
    THEN [outcome |-> "FetchError", cur |-> cur, chunks |-> chunks,
          fetches |-> fetches + 1]
    ELSE LET rows == fetchmany(cur, k)
             cur2 == [cur EXCEPT !.pos = @ + Len(rows)]
         IN  IF LoopDone(rows, k)
             THEN [outcome |-> "ok", cur |-> cur2, chunks |-> chunks,
                   fetches |-> fetches + 1]
             ELSE chunk_loop(cur2, k, failAt, fetches + 1, Append(chunks, rows))

\* The driver calls of a chunked loop, in order; fetch_pandas reads
\* cursor.description once per chunk (perChunk).
LoopCalls(h, r, perChunk) ==
    Flatten([i \in 1..r.fetches |->
        IF i <= Len(r.chunks)
        THEN <<Call("fetchmany", h, TRUE, "")>>
             \o (IF perChunk THEN <<Call("description", h, TRUE, "")>> ELSE <<>>)
        ELSE <<Call("fetchmany", h, r.outcome = "ok", "")>>])

\* What a retrieval call hands back when it raises.
NoResult == "no result"

\* fetch_pandas() from the cursor q of execute_query on: the try block and its
\* finally.
fetch_pandas_from(q, n, k, failAt) ==
    LET h == q.cur.h
    IN  IF q.outcome # "ok"
        THEN [sess |-> q.sess, hs |-> q.hs, calls |-> q.calls, outcome |-> q.outcome,
              result |-> NoResult, cur |-> q.cur, fetches |-> 0]
        ELSE IF k # None
        THEN LET r == chunk_loop(q.cur, k, failAt, 0, <<>>)
                 frames == [i \in 1..Len(r.chunks) |->
                               DataFrame(r.chunks[i], Description)]
                 cat == pd_concat(frames)
                 outcome == IF r.outcome # "ok" THEN r.outcome ELSE cat.outcome
             IN  [sess |-> q.sess, hs |-> q.hs,
                  calls |-> q.calls \o LoopCalls(h, r, TRUE)
                            \o <<Call("cursor_close", h, TRUE, "")>>,
                  outcome |-> outcome,
                  result |-> IF outcome = "ok" THEN cat.value ELSE NoResult,
                  cur |-> CloseCursor(r.cur), fetches |-> r.fetches]
        ELSE LET ok == failAt # 1
             IN  [sess |-> q.sess, hs |-> q.hs,
                  calls |-> q.calls \o <<Call("fetch_pandas_all", h, ok, ""),
                                         Call("cursor_close", h, TRUE, "")>>,
                  outcome |-> IF ok THEN "ok" ELSE "FetchError",
                  result |-> IF ok THEN DataFrame(Rows(n), Description) ELSE NoResult,
                  cur |-> CloseCursor(q.cur), fetches |-> 0]

\* DataRetriever.fetch_pandas(query, chunk_size): k = None is the unchunked call
\* (`if chunk_size:` is false), served by cursor.fetch_pandas_all().
DataRetriever_fetch_pandas(sess, hs, s, openOk, execOk, n, k, failAt) ==
    fetch_pandas_from(SnowflakeConnection_execute_query(sess, hs, s, openOk, execOk, n),
        n, k, failAt)

\* fetch_dict() from the cursor q of execute_query on.
fetch_dict_from(q, n, k, failAt) ==
    LET h == q.cur.h
        column_names == Description
    IN  IF q.outcome # "ok"
        THEN [sess |-> q.sess, hs |-> q.hs, calls |-> q.calls, outcome |-> q.outcome,
              result |-> NoResult, cur |-> q.cur, fetches |-> 0]
        ELSE IF k # None
        THEN LET r == chunk_loop(q.cur, k, failAt, 0, <<>>)
                 results == Flatten([i \in 1..Len(r.chunks) |->
                                        DictRows(column_names, r.chunks[i])])
             IN  [sess |-> q.sess, hs |-> q.hs,
                  calls |-> q.calls \o <<Call("description", h, TRUE, "")>>
                            \o LoopCalls(h, r, FALSE)
                            \o <<Call("cursor_close", h, TRUE, "")>>,
                  outcome |-> r.outcome,
                  result |-> IF r.outcome = "ok" THEN results ELSE NoResult,
                  cur |-> CloseCursor(r.cur), fetches |-> r.fetches]
        ELSE LET ok == failAt # 1
             IN  [sess |-> q.sess, hs |-> q.hs,
                  calls |-> q.calls \o <<Call("description", h, TRUE, ""),
                                         Call("fetchall", h, ok, ""),
                                         Call("cursor_close", h, TRUE, "")>>,
                  outcome |-> IF ok THEN "ok" ELSE "FetchError",
                  result |-> IF ok THEN DictRows(column_names, Rows(n)) ELSE NoResult,
                  cur |-> CloseCursor(q.cur), fetches |-> 0]

\* DataRetriever.fetch_dict(query, chunk_size): the column names are read once,
\* then the rows are fetched chunked (k # None) or by cursor.fetchall().
DataRetriever_fetch_dict(sess, hs, s, openOk, execOk, n, k, failAt) ==
    fetch_dict_from(SnowflakeConnection_execute_query(sess, hs, s, openOk, execOk, n),
        n, k, failAt)
\* A variant of fetch_one() that raises when the result has no rows.
fetch_one_raise_empty(q, n, k, failAt) ==
    LET h == q.cur.h
        ok == failAt # 1 /\ n > 0
    IN  IF q.outcome # "ok"
        THEN [sess |-> q.sess, hs |-> q.hs, calls |-> q.calls, outcome |-> q.outcome,
              result |-> NoResult, cur |-> q.cur, fetches |-> 0]
        ELSE [sess |-> q.sess, hs |-> q.hs,
              calls |-> q.calls \o <<Call("fetchone", h, failAt # 1, ""),
                                     Call("cursor_close", h, TRUE, "")>>,
              outcome |-> IF ok THEN "ok" ELSE "FetchError",
              result |-> IF ok THEN Row(1) ELSE NoResult,
              cur |-> CloseCursor(q.cur), fetches |-> 0]

\* fetch_one() from the cursor q of execute_query on.
fetch_one_from(q, n, k, failAt) ==
    LET h == q.cur.h
        ok == failAt # 1
    IN  IF q.outcome # "ok"
        THEN [sess |-> q.sess, hs |-> q.hs, calls |-> q.calls, outcome |-> q.outcome,
              result |-> NoResult, cur |-> q.cur, fetches |-> 0]
        ELSE [sess |-> q.sess, hs |-> q.hs,
              calls |-> q.calls \o <<Call("fetchone", h, ok, ""),
                                     Call("cursor_close", h, TRUE, "")>>,
              outcome |-> IF ok THEN "ok" ELSE "FetchError",
              result |-> IF ~ok THEN NoResult
                         ELSE IF n = 0 THEN None ELSE Row(1),
              cur |-> CloseCursor(q.cur), fetches |-> 0]

\* DataRetriever.fetch_one(query): cursor.fetchone(), the first row or None.
DataRetriever_fetch_one(sess, hs, s, openOk, execOk, n, k, failAt) ==
    fetch_one_from(SnowflakeConnection_execute_query(sess, hs, s, openOk, execOk, n),
        n, k, failAt)
\* A variant of fetch_all() that closes its cursor after the fetch instead of
\* in a finally block.
fetch_all_no_finally(q, n, k, failAt) ==
    LET h == q.cur.h
        ok == failAt # 1
    IN  IF q.outcome # "ok"
        THEN [sess |-> q.sess, hs |-> q.hs, calls |-> q.calls, outcome |-> q.outcome,
              result |-> NoResult, cur |-> q.cur, fetches |-> 0]
        ELSE [sess |-> q.sess, hs |-> q.hs,
              calls |-> q.calls \o <<Call("fetchall", h, ok, "")>>
                        \o (IF ok THEN <<Call("cursor_close", h, TRUE, "")>> ELSE <<>>),
              outcome |-> IF ok THEN "ok" ELSE "FetchError",
              result |-> IF ok THEN Rows(n) ELSE NoResult,
              cur |-> IF ok THEN CloseCursor(q.cur) ELSE q.cur, fetches |-> 0]

\* fetch_all() from the cursor q of execute_query on.
fetch_all_from(q, n, k, failAt) ==
    LET h == q.cur.h
        ok == failAt # 1
    IN  IF q.outcome # "ok"
        THEN [sess |-> q.sess, hs |-> q.hs, calls |-> q.calls, outcome |-> q.outcome,
              result |-> NoResult, cur |-> q.cur, fetches |-> 0]
        ELSE [sess |-> q.sess, hs |-> q.hs,
              calls |-> q.calls \o <<Call("fetchall", h, ok, ""),
                                     Call("cursor_close", h, TRUE, "")>>,
              outcome |-> IF ok THEN "ok" ELSE "FetchError",
              result |-> IF ok THEN Rows(n) ELSE NoResult,
              cur |-> CloseCursor(q.cur), fetches |-> 0]

\* DataRetriever.fetch_all(query): cursor.fetchall(), every row in order.
DataRetriever_fetch_all(sess, hs, s, openOk, execOk, n, k, failAt) ==
    fetch_all_from(SnowflakeConnection_execute_query(sess, hs, s, openOk, execOk, n),
        n, k, failAt)

\* execute() from the cursor q of execute_query on.
execute_from(q, n, k, failAt) ==
    [sess |-> q.sess, hs |-> q.hs, calls |-> q.calls, outcome |-> q.outcome,
         result |-> IF q.outcome = "ok" THEN "cursor" ELSE NoResult,
         cur |-> q.cur, fetches |-> 0]

\* DataRetriever.execute(query): the cursor of execute_query, handed to the
\* caller open.
DataRetriever_execute(sess, hs, s, openOk, execOk, n, k, failAt) ==
    execute_from(SnowflakeConnection_execute_query(sess, hs, s, openOk, execOk, n),
        n, k, failAt)

\* ------------------------------- data_retriever.py: the lazy batch sequences
\* A generator object of fetch_pandas_batches / fetch_dict_batches: where it is
\* suspended, its arguments, and the locals of its frame.
\*   state: "none" (no such object), "created" (not pulled yet),
\*          "suspended" (at its yield), "done" (frame finished)
\*   ended: how it finished: "exhausted", "abandoned", "error" or "" (not yet)
NoGen ==
    [state |-> "none", kind |-> "", session |-> None, k |-> 0,
     column_names |-> <<>>, cur |-> NoCursor, yielded |-> <<>>, ended |-> ""]

\* A variant in which the call runs the function's body up to the cursor at
\* once, as a plain function would.
NewGenStarted(kind, s, k) ==
    [NoGen EXCEPT !.state = "created", !.kind = kind, !.session = s, !.k = k,
                  !.cur = Cursor(s, 0)]

\* Calling a generator function runs none of its body: the arguments are bound.
NewGen(kind, s, k) ==
    [NoGen EXCEPT !.state = "created", !.kind = kind, !.session = s, !.k = k]
\* A variant that builds each batch from the chunk's rows in reverse order.
MakeBatchReversed(kind, rows, column_names) ==
    LET rev == [i \in 1..Len(rows) |-> rows[Len(rows) + 1 - i]]
    IN  IF kind = "pandas" THEN DataFrame(rev, column_names)
        ELSE DictRows(column_names, rev)

\* The batch a lazy sequence yields for one chunk of rows.
MakeBatch(kind, rows, column_names) ==
    IF kind = "pandas" THEN DataFrame(rows, column_names)
    ELSE DictRows(column_names, rows)

\* The rows a yielded batch holds, in order.
BatchLen(kind, batch) == IF kind = "pandas" THEN Len(batch.rows) ELSE Len(batch)

\* A variant of the lazy loops' exit test that stops at the first short chunk.
BatchesDoneShort(rows, k) == Len(rows) < k

\* The exit test of the lazy loops: `if not rows: break`.
BatchesDone(rows, k) == rows = <<>>
\* A variant in which the generator's frame does not end: it stays at its yield.
FinishNot(g, how) == g

\* The generator's finally block, cursor.close(), and the end of its frame.
Finish(g, how) ==
    [g EXCEPT !.state = "done", !.ended = how, !.cur = CloseCursor(@)]
\* A variant of the lazy loop that reads cursor.description again for every
\* batch it builds.
gen_loop_rereads(g, fault, calls) ==
    LET h == g.cur.h
        rows == fetchmany(g.cur, g.k)
    IN  IF fault
        THEN [gen |-> Finish(g, "error"),
              calls |-> calls \o <<Call("fetchmany", h, FALSE, ""),
                                   Call("cursor_close", h, TRUE, "")>>,
              outcome |-> "FetchError", result |-> NoResult]
        ELSE IF BatchesDone(rows, g.k)
        THEN [gen |-> Finish(g, "exhausted"),
              calls |-> calls \o <<Call("fetchmany", h, TRUE, ""),
                                   Call("cursor_close", h, TRUE, "")>>,
              outcome |-> "StopIteration", result |-> NoResult]
        ELSE LET batch == MakeBatch(g.kind, rows, Description)
             IN  [gen |-> [g EXCEPT !.state = "suspended",
                                    !.cur.pos = @ + Len(rows),
                                    !.yielded = Append(@, batch)],
                  calls |-> calls \o <<Call("fetchmany", h, TRUE, ""),
                                       Call("description", h, TRUE, "")>>,
                  outcome |-> "ok", result |-> batch]

\* One turn of the lazy loop, from `rows = cursor.fetchmany(batch_size)` to the
\* next yield or to the end of the generator. fault: this fetchmany raises.
gen_loop(g, fault, calls) ==
    LET h == g.cur.h
        rows == fetchmany(g.cur, g.k)
    IN  IF fault
        THEN [gen |-> Finish(g, "error"),
              calls |-> calls \o <<Call("fetchmany", h, FALSE, ""),
                                   Call("cursor_close", h, TRUE, "")>>,
              outcome |-> "FetchError", result |-> NoResult]
        ELSE IF BatchesDone(rows, g.k)
        THEN [gen |-> Finish(g, "exhausted"),
              calls |-> calls \o <<Call("fetchmany", h, TRUE, ""),
                                   Call("cursor_close", h, TRUE, "")>>,
              outcome |-> "StopIteration", result |-> NoResult]
        ELSE LET batch == MakeBatch(g.kind, rows, g.column_names)
             IN  [gen |-> [g EXCEPT !.state = "suspended",
                                    !.cur.pos = @ + Len(rows),
                                    !.yielded = Append(@, batch)],
                  calls |-> calls \o <<Call("fetchmany", h, TRUE, "")>>,
                  outcome |-> "ok", result |-> batch]

\* The generator's body from the cursor q of execute_query on, up to its first
\* yield or its end.
gen_from(g, q, fault) ==
    IF q.outcome # "ok"
    THEN [sess |-> q.sess, hs |-> q.hs,
          gen |-> [g EXCEPT !.state = "done", !.ended = "error"],
          calls |-> q.calls, outcome |-> q.outcome, result |-> NoResult]
    ELSE LET g2 == [g EXCEPT !.cur = q.cur, !.column_names = Description]
             r == gen_loop(g2, fault,
                           q.calls \o <<Call("description", q.cur.h, TRUE, "")>>)
         IN  [sess |-> q.sess, hs |-> q.hs, gen |-> r.gen, calls |-> r.calls,
              outcome |-> r.outcome, result |-> r.result]

\* The first pull of fetch_pandas_batches / fetch_dict_batches: execute_query,
\* the column names read once from cursor.description, then the loop. When
\* execute_query raises the generator ends without a cursor of its own.
gen_first(g, sess, hs, s, openOk, execOk, n, fault) ==
    gen_from(g, SnowflakeConnection_execute_query(sess, hs, s, openOk, execOk, n),
             fault)

\* A variant whose cleanup runs only when the loop ends by itself.
gen_close_no_finally(g) ==
    [gen |-> [g EXCEPT !.state = "done", !.ended = "abandoned"], calls |-> <<>>]

\* generator.close() (or the generator being dropped): GeneratorExit is raised
\* at the yield where it is suspended and the finally block runs; a generator
\* that was never pulled just ends.
gen_close(g) ==
    IF g.state = "suspended"
    THEN [gen |-> Finish(g, "abandoned"),
          calls |-> <<Call("cursor_close", g.cur.h, TRUE, "")>>]
    ELSE [gen |-> [g EXCEPT !.state = "done", !.ended = "abandoned"],
          calls |-> <<>>]

\* --------------------------------------------- object lifetime (CPython)
\* Whether an object still refers to Session s: the facade's manager m, the
\* frame of a generator that has not finished (its self is the DataRetriever
\* that holds the Session), or the traceback of an exception the caller holds
\* (tb: the frames of the methods that raised keep their self). A Session the
\* caller constructed is held by the caller.
Referenced(ss, s, m, gs, tb) ==
    \/ s = m
    \/ ss[s].owner = "direct"
    \/ s \in tb
    \/ \E g \in DOMAIN gs :
           gs[g].state \in {"created", "suspended"} /\ gs[g].session = s

\* A variant of the class without __del__: a Session nothing refers to any
\* more goes without its handle being closed.
del_absent(ss, hs, s, m, gs, tb, closeRaises) ==
    [ss |-> ss, hs |-> hs, calls |-> <<>>]

\* SnowflakeConnection.__del__: disconnect() runs when the last reference to the
\* Session goes.
SnowflakeConnection_del(ss, hs, s, m, gs, tb, closeRaises) ==
    IF s # None /\ ss[s].owner = "facade" /\ ~Referenced(ss, s, m, gs, tb)
    THEN LET d == SnowflakeConnection_disconnect(ss[s], hs, closeRaises)
         IN  [ss |-> [ss EXCEPT ![s] = [d.sess EXCEPT !.owner = "freed"]],
              hs |-> d.hs, calls |-> d.calls]
    ELSE [ss |-> ss, hs |-> hs, calls |-> <<>>]

\* An exception that leaves a method of Session s (or of the DataRetriever or
\* manager that holds it) goes to the caller with a traceback whose frames
\* refer to s; a call that returns adds none.
Raised(tb, s, outcome) == IF outcome = "ok" THEN tb ELSE tb \cup {s}

\* ------------------------- connection_manager.py and __init__.py: the facade
\* A variant of is_connected() that forgets the Session's connected flag.
is_connected_handle_only(m, ss) == m # None

\* ConnectionManager.is_connected(): a Session is held and its flag is set.
ConnectionManager_is_connected(m, ss) == m # None /\ ss[m].is_connected

\* ConnectionManager._ensure_connected(): the check every manager method makes.
ConnectionManager_ensure_connected(m, ss) == ConnectionManager_is_connected(m, ss)

\* __init__._ensure_connected(): the check every module-level entry point makes.
ensure_connected(m, ss) == m # None /\ ConnectionManager_is_connected(m, ss)

\* The DataRetriever method behind each entry point.
Retrieve(op, sess, hs, s, openOk, execOk, n, k, failAt) ==
    CASE op = "fetch_pandas" -> DataRetriever_fetch_pandas(sess, hs, s, openOk, execOk, n, k, failAt)
      [] op = "fetch_dict" -> DataRetriever_fetch_dict(sess, hs, s, openOk, execOk, n, k, failAt)
      [] op = "fetch_one" -> DataRetriever_fetch_one(sess, hs, s, openOk, execOk, n, k, failAt)
      [] op = "fetch_all" -> DataRetriever_fetch_all(sess, hs, s, openOk, execOk, n, k, failAt)
      [] op = "execute" -> DataRetriever_execute(sess, hs, s, openOk, execOk, n, k, failAt)

\* The chunk_size / batch_size arguments an entry point takes (None: not given).
Chunked == {"fetch_pandas", "fetch_dict"}

Sizes(op) == IF op \in Chunked THEN 0..MaxK ELSE {None}

\* The fetch calls a retrieval makes when none of them raises.
FetchCalls(op, n, k) ==
    IF op = "execute" THEN 0
    ELSE IF op \in Chunked /\ k # None THEN Ceil(n, k) + 1
    ELSE 1

\* ------------------------------------------------------------ the logging
\* One record handed to the logging module: its level, the literal text of
\* the f-string with {} for each interpolated value, and those values as text.
Message(level, text, args) == [level |-> level, text |-> text, args |-> args]

\* str(e) of an exception the driver raised.
DriverErrorText == "driver error"

\* connection.py: the Connecting line, logged before the driver's open with
\* self.account and self.user. A variant that logs self.password as well.
ConnectingWithSecret(params) ==
    Message("info", "Connecting to Snowflake account: {} as user: {}",
            <<params.account, params.user, params.password>>)

ConnectingMessage(params) ==
    Message("info", "Connecting to Snowflake account: {} as user: {}",
            <<params.account, params.user>>)

\* connection.py: what connect() and disconnect() log before a driver call.
LogBefore(call) ==
    IF call.c = "open" THEN <<ConnectingMessage(call.params)>> ELSE <<>>

\* connection.py: what connect() and disconnect() log once a driver call has
\* returned or raised.
LogAfter(call) ==
    CASE call.c = "open" /\ call.ok ->
             <<Message("info", "Successfully connected to Snowflake", <<>>)>>
      [] call.c = "open" /\ ~call.ok ->
             <<Message("error", "Failed to connect to Snowflake: {}",
                       <<DriverErrorText>>)>>
      [] call.c = "execute" /\ call.sql = "SELECT 1" /\ ~call.ok ->
             <<Message("warning", "Cached connection is dead, reconnecting...", <<>>)>>
      [] call.c = "close" /\ call.ok ->
             <<Message("info", "Disconnected from Snowflake", <<>>)>>
      [] call.c = "close" /\ ~call.ok ->
             <<Message("warning", "Error during disconnect: {}", <<DriverErrorText>>)>>
      [] OTHER -> <<>>

\* data_retriever.py: what fetch_pandas logs once execute_query has returned the
\* cursor and chunk_size is true.
RetrieverLogAfter(call, op, k) ==
    IF /\ call.c = "execute" /\ call.sql = "query" /\ call.ok
       /\ op = "fetch_pandas" /\ k # None
    THEN <<Message("info", "Fetching data in chunks of {} rows", <<ToString(k)>>)>>
    ELSE <<>>

\* data_retriever.py: what a retrieval logs at the end of its try block, before
\* the cursor is closed in the finally block.
RetrieverLogBefore(call, op, k, n, outcome, gen) ==
    IF call.c # "cursor_close" THEN <<>>
    ELSE CASE op = "fetch_pandas" /\ outcome = "ok" /\ k # None ->
                  <<Message("info", "Retrieved {} rows in {} chunks",
                            <<ToString(n), ToString(Ceil(n, k))>>)>>
           [] op = "fetch_dict" /\ outcome = "ok" /\ k # None ->
                  <<Message("info", "Retrieved {} rows in chunks", <<ToString(n)>>)>>
           [] op \in {"fetch_pandas", "fetch_dict"} /\ outcome = "ok" /\ k = None ->
                  <<Message("info", "Retrieved {} rows", <<ToString(n)>>)>>
           [] op = "next" /\ outcome = "StopIteration" ->
                  <<Message("info", "Completed fetching {} batches",
                            <<ToString(Len(gen.yielded))>>)>>
           [] OTHER -> <<>>

\* data_retriever.py: what a lazy sequence logs right before it yields a batch.
YieldingLog(op, outcome, result, gen) ==
    IF op = "next" /\ outcome = "ok"
    THEN <<Message("debug", "Yielding batch {} with {} rows",
                   <<ToString(Len(gen.yielded)),
                     ToString(BatchLen(gen.kind, result))>>)>>
    ELSE <<>>

\* The records a call logged, in order: each is logged between two of the
\* external calls it made.
Log(op, k, n, outcome, result, calls, gen) ==
    Flatten([i \in 1..Len(calls) |->
                LogBefore(calls[i])
                    \o RetrieverLogBefore(calls[i], op, k, n, outcome, gen)
                    \o LogAfter(calls[i])
                    \o RetrieverLogAfter(calls[i], op, k)])
        \o YieldingLog(op, outcome, result, gen)

\* The record of a call that has returned or raised: the entry point, how it
\* was reached, its arguments, the driver's answers, what the caller could tell
\* beforehand, the outcome, the result, the external calls it made in order,
\* (for a pull or a close of a lazy sequence) the generator as the call left
\* it, and what it logged. args: the keyword arguments of a facade connect().
\* The outcome, result, calls and generator are bound once and read from there.
ReturnedFrom(args, op, via, s, k, n, failAt, pre, outcome, result, calls, gen) ==
    CHOOSE r \in {[op |-> op, via |-> via, s |-> s, k |-> k, n |-> n,
                   fault |-> failAt, pre |-> pre, outcome |-> o, result |-> res,
                   calls |-> cs, gen |-> g, args |-> args,
                   log |-> Log(op, k, n, o, res, cs, g)] :
                      o \in {outcome}, res \in {result}, cs \in {calls}, g \in {gen}} :
        TRUE

Returned(op, via, s, k, n, failAt, pre, outcome, result, calls, gen) ==
    ReturnedFrom(<<>>, op, via, s, k, n, failAt, pre, outcome, result, calls, gen)

\* What holds before a call: whether a facade connect() succeeded since the
\* last disconnect(), and the handle the target Session holds.
Pre(s) ==
    [connected |-> connectedSince,
     conn |-> IF s = None THEN None ELSE sessions[s].connection]

\* The driver's answers to one retrieval call, one choice per distinct run:
\* openOk matters when connect() opens, execOk when it succeeded, the result
\* size n when the statement ran, and failAt among the fetch calls made. The
\* driver returns at most MaxOpens handles; past that its open fails.
Answers(sess, op, k, n, openOk, execOk, failAt) ==
    /\ (WouldOpen(sess, handles) /\ openOk) => Len(handles) < MaxOpens
    /\ ~WouldOpen(sess, handles) => openOk
    /\ ~openOk => execOk
    /\ ~(openOk /\ execOk) => (n = 0 /\ failAt = 0)
    /\ failAt <= FetchCalls(op, n, k)

\* ------------------------------------------------------------ the machine
\* The state after `import snowflake_connector`: no manager, no Session.
Init ==
    /\ manager = None
    /\ sessions = [i \in 1..MaxSessions |-> NoSession]
    /\ handles = <<>>
    /\ gens = [g \in 1..MaxGens |-> NoGen]
    /\ connectedSince = FALSE
    /\ tracebacks = {}
    /\ last = Returned("import", "", None, None, 0, 0,
                       [connected |-> FALSE, conn |-> None],
                       "ok", NoResult, <<>>, NoGen)

\* The state after the caller constructed a Session of its own,
\* SnowflakeConnection(...), and a DataRetriever on it.
InitSession ==
    /\ manager = None
    /\ sessions = [i \in 1..MaxSessions |->
                      IF i = 1 THEN SnowflakeConnection_init("direct", DirectArgs) ELSE NoSession]
    /\ handles = <<>>
    /\ gens = [g \in 1..MaxGens |-> NoGen]
    /\ connectedSince = FALSE
    /\ tracebacks = {}
    /\ last = Returned("__init__", "direct", 1, None, 0, 0,
                       [connected |-> FALSE, conn |-> None],
                       "ok", NoResult, <<>>, NoGen)

\* The Session objects the caller constructed and holds.
Direct == {s \in DOMAIN sessions : sessions[s].owner = "direct"}

HasFree == \E i \in DOMAIN sessions : sessions[i].owner = "none"

\* The next Session object to be constructed.
NewSessionId ==
    CHOOSE i \in DOMAIN sessions :
        sessions[i].owner = "none" /\ \A j \in 1..(i - 1) : sessions[j].owner # "none"

\* ------------------------------------------- utils.py: the Credential Source
\* The lines a person types at the username and at the password prompt.
UserLines == {"bob", " bob "}

SecretLines == {"sesame", "sesame "}

\* The characters str.strip() removes from both ends of a line: those for which
\* str.isspace() holds. A string of the model holds characters up to U+00FF;
\* among them these are the space, \t, \n, \r, \f, the vertical tab U+000B, the
\* separators U+001C to U+001F, the next-line character U+0085 and the
\* no-break space U+00A0.
Whitespace ==
    {" ", "\t", "\n", "\r", "\f",
     "", "", "", "", "", "", " "}

RECURSIVE lstrip(_)
lstrip(line) ==
    IF line # "" /\ SubSeq(line, 1, 1) \in Whitespace
    THEN lstrip(SubSeq(line, 2, Len(line)))
    ELSE line

RECURSIVE rstrip(_)
rstrip(line) ==
    IF line # "" /\ SubSeq(line, Len(line), Len(line)) \in Whitespace
    THEN rstrip(SubSeq(line, 1, Len(line) - 1))
    ELSE line

\* str.strip(): the line without its leading and trailing whitespace.
strip(line) == rstrip(lstrip(line))

\* Where the prompts run: what getpass.getpass(prompt) and input(prompt) do
\* (each returns the line typed, "typed", or raises the exception named),
\* whether ipykernel is loaded, the class of the IPython shell if there is one,
\* and what `from IPython.core.getpass import getpass` and the call of that
\* function do ("ImportError": the import fails).
Terminal ==
    [getpass |-> "typed", input |-> "typed", ipykernel |-> FALSE,
     shell |-> NoneStr, ipython_getpass |-> "ImportError"]

\* The environments in which only input() is called: it returns, or raises at
\* the end of stdin or on an interrupt.
InputEnvironments ==
    {[Terminal EXCEPT !.input = e] : e \in {"typed", "EOFError", "KeyboardInterrupt"}}

\* The environments get_password is called in: one for each of its branches.
PasswordEnvironments ==
    {Terminal}
    \cup {[Terminal EXCEPT !.getpass = e] : e \in {"EOFError", "KeyboardInterrupt", "OSError"}}
    \cup {[Terminal EXCEPT !.getpass = "OSError", !.ipykernel = k,
                           !.shell = IF k THEN NoneStr ELSE "ZMQInteractiveShell",
                           !.ipython_getpass = i] :
             k \in BOOLEAN, i \in {"typed", "ImportError"}}
    \cup {[Terminal EXCEPT !.getpass = "OSError", !.ipykernel = TRUE,
                           !.ipython_getpass = "EOFError"],
          [Terminal EXCEPT !.getpass = "OSError", !.ipykernel = TRUE,
                           !.input = "EOFError"]}

Environments == InputEnvironments \cup PasswordEnvironments

\* is_jupyter(): ipykernel is loaded, or the IPython shell is the notebook's.
is_jupyter(env) == env.ipykernel \/ env.shell = "ZMQInteractiveShell"

\* One question put to the person at the terminal; ok: it returned an answer.
PromptCall(c, ok, prompt) == Call(c, None, ok, prompt)

\* input(prompt).strip(): the stripped line, or the exception input() raises.
input_strip(line, env) ==
    IF env.input = "typed"
    THEN [outcome |-> "ok", value |-> strip(line)]
    ELSE [outcome |-> env.input, value |-> NoneStr]

\* get_input(prompt): input(prompt).strip().
get_input(line, env) == input_strip(line, env)

\* get_password(prompt): getpass.getpass(prompt), returned as typed; EOFError
\* and KeyboardInterrupt are re-raised; on any other exception, in Jupyter
\* IPython's getpass is used, or when that does not import, a warning and
\* input(prompt).strip(); outside Jupyter the exception is re-raised.
get_password(line, env) ==
    IF env.getpass = "typed"
    THEN [outcome |-> "ok", value |-> line, calls |-> <<>>]
    ELSE IF env.getpass \in {"EOFError", "KeyboardInterrupt"}
    THEN [outcome |-> env.getpass, value |-> NoneStr, calls |-> <<>>]
    ELSE IF is_jupyter(env)
    THEN IF env.ipython_getpass = "typed"
         THEN [outcome |-> "ok", value |-> line, calls |-> <<>>]
         ELSE IF env.ipython_getpass # "ImportError"
         THEN [outcome |-> env.ipython_getpass, value |-> NoneStr, calls |-> <<>>]
         ELSE [outcome |-> input_strip(line, env).outcome,
               value |-> input_strip(line, env).value,
               calls |-> <<PromptCall("warn", TRUE, "Password input will be visible. Consider using getpass in a terminal.")>>]
    ELSE [outcome |-> env.getpass, value |-> NoneStr, calls |-> <<>>]

\* ------------------------------------------------ __init__.py: connect(...)
\* The account of the signature's default and of the `account is None` branch.
DefaultAccount == "GAIADLH-HPA09261"

\* The signature of connect(): the value of each parameter left out of a call.
ConnectDefaults ==
    [account |-> DefaultAccount, user |-> NoneStr, password |-> NoneStr,
     warehouse |-> NoneStr, role |-> NoneStr]

\* The values a caller passes for each keyword of connect().
ArgValues ==
    [account |-> {NoneStr, "XY12345"}, user |-> {"alice"},
     password |-> {"hunter2"}, warehouse |-> {"WH"}, role |-> {"ANALYST"}]

\* connect(account=None, user=None, password=None): None passed explicitly.
NoneCall == [account |-> NoneStr, user |-> NoneStr, password |-> NoneStr]

\* The calls of connect(): each keyword is left out or given one of its
\* values, and the call that passes None for each credential.
ConnectCalls ==
    UNION {{c \in [S -> UNION {ArgValues[f] : f \in S}] :
                \A f \in S : c[f] \in ArgValues[f]} :
           S \in SUBSET DOMAIN ArgValues}
    \cup {NoneCall}

\* connect(user="alice", password="hunter2"): the credentials are supplied.
SuppliedCall == [user |-> "alice", password |-> "hunter2"]

\* Python binds the parameters of connect(): a keyword left out takes its default.
Bind(call) ==
    [f \in DOMAIN ConnectDefaults |->
        IF f \in DOMAIN call THEN call[f] ELSE ConnectDefaults[f]]

\* `if user is None: user = get_input(...)`: the user given, or the answer.
AskUser(a, userLine, env) ==
    IF a.user = NoneStr THEN get_input(userLine, env)
    ELSE [outcome |-> "ok", value |-> a.user]

\* `if password is None: password = get_password(...)`.
AskPassword(a, secretLine, env) ==
    IF a.password = NoneStr THEN get_password(secretLine, env)
    ELSE [outcome |-> "ok", value |-> a.password, calls |-> <<>>]

\* A variant of the three `is None` tests that asks for the user in any case.
ResolveAlwaysAsking(a, userLine, secretLine, env) ==
    LET u == get_input(userLine, env)
        p == AskPassword(a, secretLine, env)
    IN  [args |-> [a EXCEPT !.account = IF @ = NoneStr THEN DefaultAccount ELSE @,
                            !.user = u.value,
                            !.password = IF u.outcome = "ok" THEN p.value ELSE @],
         calls |-> <<PromptCall("get_input", u.outcome = "ok",
                                "Enter Snowflake username: ")>>
                   \o (IF a.password = NoneStr /\ u.outcome = "ok"
                       THEN <<PromptCall("get_password", p.outcome = "ok",
                                         "Enter Snowflake password: ")>> \o p.calls
                       ELSE <<>>),
         outcome |-> IF u.outcome # "ok" THEN u.outcome ELSE p.outcome]

\* The three `is None` tests at the head of connect(), the same in __init__.py
\* and in connection_manager.py: the fallback account, then a prompt for the
\* user, then one for the password. outcome: "ok", or the exception a prompt
\* raised, which ends connect() there: when the prompt for the user raises,
\* the password is not asked for.
Resolve(a, userLine, secretLine, env) ==
    LET u == AskUser(a, userLine, env)
        p == AskPassword(a, secretLine, env)
    IN  [args |-> [a EXCEPT !.account = IF @ = NoneStr THEN DefaultAccount ELSE @,
                            !.user = u.value,
                            !.password = IF u.outcome = "ok" THEN p.value ELSE @],
         calls |-> (IF a.user = NoneStr
                    THEN <<PromptCall("get_input", u.outcome = "ok",
                                      "Enter Snowflake username: ")>>
                    ELSE <<>>)
                   \o (IF a.password = NoneStr /\ u.outcome = "ok"
                       THEN <<PromptCall("get_password", p.outcome = "ok",
                                         "Enter Snowflake password: ")>> \o p.calls
                       ELSE <<>>),
         outcome |-> IF u.outcome # "ok" THEN u.outcome ELSE p.outcome]

\* A prompt named c was made among `calls` and returned an answer.
Answered(calls, c) == \E i \in 1..Len(calls) : calls[i].c = c /\ calls[i].ok

\* The arguments a with the answer of each prompt made among `calls` replaced
\* by v. An answer is a str whatever the person typed, the line "None"
\* included: it is never None.
WithAnswers(a, calls, v) ==
    [a EXCEPT !.user = IF Answered(calls, "get_input") THEN v.user ELSE @,
              !.password = IF Answered(calls, "get_password") THEN v.password ELSE @]

\* The tests of ConnectionManager.connect() see a str in place of each answer.
Str == [user |-> "str", password |-> "str"]

\* ConnectionManager.connect(account=..., user=..., ...) as __init__.connect()
\* calls it with what r resolved: the same `is None` tests once more
\* (connection_manager.py 53-59), made on the caller's values and on the
\* answers r holds, and the values go on as they are.
ManagerResolve(r, userLine, secretLine, env) ==
    [args |-> WithAnswers(Resolve(WithAnswers(r.args, r.calls, Str),
                                  userLine, secretLine, env).args,
                          r.calls, r.args),
     calls |-> r.calls \o Resolve(WithAnswers(r.args, r.calls, Str),
                                  userLine, secretLine, env).calls]

\* ConnectionManager.connect(): the arguments of SnowflakeConnection(...).
ManagerArgs(a) ==
    [InitDefaults EXCEPT !.account = a.account, !.user = a.user,
                         !.password = a.password, !.warehouse = a.warehouse,
                         !.role = a.role]

\* A variant of connect() that installs the new manager only once its
\* connect() has succeeded: after a failure the previous manager stays.
ConnectingKeepsOld(call, r, s, openOk, closeRaises, f) ==
    LET c == SnowflakeConnection_connect(
                 SnowflakeConnection_init("facade", ManagerArgs(r.args)),
                 IF openOk THEN f.hs ELSE handles, s, openOk)
    IN  /\ openOk => Len(handles) < MaxOpens
        /\ (f.calls = <<>> \/ ~openOk) => ~closeRaises
        /\ manager' = IF openOk THEN s ELSE manager
        /\ sessions' = IF openOk THEN [f.ss EXCEPT ![s] = c.sess]
                       ELSE [sessions EXCEPT ![s] = [c.sess EXCEPT !.owner = "freed"]]
        /\ handles' = c.hs
        /\ connectedSince' = (connectedSince \/ c.outcome = "ok")
        /\ last' = ReturnedFrom(call, "connect", "facade", s, None, 0, 0,
                                Pre(manager), c.outcome, NoResult,
                                r.calls \o (IF openOk THEN f.calls ELSE <<>>)
                                    \o c.calls, NoGen)
        /\ tracebacks' = Raised(tracebacks, s, c.outcome)
        /\ UNCHANGED gens

\* connect() from the resolved arguments r on: a new ConnectionManager replaces
\* the global (the manager it replaces is unbound and, when nothing else holds
\* its Session, freed), then ConnectionManager.connect() constructs a Session
\* and connects it.
Connecting(call, r, s, openOk, closeRaises, f) ==
    LET c == SnowflakeConnection_connect(
                 SnowflakeConnection_init("facade", ManagerArgs(r.args)),
                 f.hs, s, openOk)
    IN  /\ openOk => Len(handles) < MaxOpens
        /\ f.calls = <<>> => ~closeRaises
        /\ manager' = s
        /\ sessions' = [f.ss EXCEPT ![s] = c.sess]
        /\ handles' = c.hs
        /\ connectedSince' = (connectedSince \/ c.outcome = "ok")
        /\ last' = ReturnedFrom(call, "connect", "facade", s, None, 0, 0,
                                Pre(manager), c.outcome, NoResult,
                                r.calls \o f.calls \o c.calls, NoGen)
        /\ tracebacks' = Raised(tracebacks, s, c.outcome)
        /\ UNCHANGED gens

\* connect() left by the exception a prompt raised (__init__.py 53-59): no
\* manager has been made, the facade is as it was.
Aborted(call, r) ==
    /\ last' = ReturnedFrom(call, "connect", "facade", None, None, 0, 0,
                            Pre(manager), r.outcome, NoResult, r.calls, NoGen)
    /\ UNCHANGED <<manager, sessions, handles, gens, connectedSince, tracebacks>>

\* connect() from the first resolution r of its arguments on.
ConnectFrom(call, r, userLine, secretLine, env, openOk, closeRaises) ==
    IF r.outcome = "ok"
    THEN Connecting(call, ManagerResolve(r, userLine, secretLine, env),
                    NewSessionId, openOk, closeRaises,
                    SnowflakeConnection_del(sessions, handles, manager,
                                            NewSessionId, gens, tracebacks,
                                            closeRaises))
    ELSE /\ openOk /\ ~closeRaises
         /\ Aborted(call, r)

\* __init__.connect(**call): the person types userLine and secretLine when
\* asked, in environment env. One choice per distinct run: a line that is
\* never read, and an environment in which no prompt is made, make no
\* difference.
FacadeConnect(calls) ==
    \E call \in calls, openOk, closeRaises \in BOOLEAN :
      \E userLine \in IF Bind(call).user = NoneStr THEN UserLines ELSE {"bob"},
         secretLine \in IF Bind(call).password = NoneStr THEN SecretLines ELSE {"sesame"},
         env \in IF Bind(call).password = NoneStr
                 THEN (IF Bind(call).user = NoneStr THEN Environments
                       ELSE PasswordEnvironments)
                 ELSE (IF Bind(call).user = NoneStr THEN InputEnvironments
                       ELSE {Terminal}) :
        /\ HasFree
        /\ AskUser(Bind(call), userLine, env).outcome # "ok" => userLine = "bob"
        /\ Resolve(Bind(call), userLine, secretLine, env).outcome # "ok"
               => secretLine = "sesame"
        /\ ConnectFrom(call, Resolve(Bind(call), userLine, secretLine, env),
                       userLine, secretLine, env, openOk, closeRaises)

\* connect() with the credentials supplied by the caller.
connect == FacadeConnect({SuppliedCall})

\* connect() with any of its keywords given or left out.
connect_any == FacadeConnect(ConnectCalls)

\* __init__.disconnect(): ConnectionManager.disconnect() disconnects the Session
\* and the global is cleared; without a manager it does nothing.
disconnect ==
    \E closeRaises \in BOOLEAN :
        IF manager # None
        THEN LET d == SnowflakeConnection_disconnect(sessions[manager], handles,
                                                     closeRaises)
                 f == SnowflakeConnection_del(
                          [sessions EXCEPT ![manager] = d.sess], d.hs, manager,
                          None, gens, tracebacks, FALSE)
             IN  /\ d.calls = <<>> => ~closeRaises
                 /\ manager' = None
                 /\ sessions' = f.ss
                 /\ handles' = f.hs
                 /\ connectedSince' = FALSE
                 /\ last' = Returned("disconnect", "facade", manager, None, 0, 0,
                                     Pre(manager), d.outcome, NoResult, d.calls, NoGen)
                 /\ UNCHANGED <<gens, tracebacks>>
        ELSE /\ ~closeRaises
             /\ connectedSince' = FALSE
             /\ last' = Returned("disconnect", "facade", None, None, 0, 0,
                                 Pre(None), "ok", NoResult, <<>>, NoGen)
             /\ UNCHANGED <<manager, sessions, handles, gens, tracebacks>>

\* The state after a DataRetriever method returned or raised: r is what it did
\* to Session s, the handles and the caller.
Retrieved(op, via, s, k, n, failAt, r) ==
    /\ sessions' = [sessions EXCEPT ![s] = r.sess]
    /\ handles' = r.hs
    /\ last' = Returned(op, via, s, k, n, failAt, Pre(s),
                        r.outcome, r.result, r.calls, NoGen)
    /\ tracebacks' = Raised(tracebacks, s, r.outcome)
    /\ UNCHANGED <<manager, gens, connectedSince>>

\* A module-level entry point that returns a materialized result (query,
\* query_dict, fetch_one, fetch_all) or a cursor (execute): the two
\* _ensure_connected checks, then the DataRetriever method on the manager's Session.
FacadeRetrieve(op) ==
    \E k \in Sizes(op) \cap (0..FacadeMaxK), n \in 0..FacadeMaxRows,
       openOk, execOk \in BOOLEAN, failAt \in 0..(FacadeMaxRows + 1) :
        IF /\ ensure_connected(manager, sessions)
           /\ ConnectionManager_ensure_connected(manager, sessions)
        THEN /\ Answers(sessions[manager], op, k, n, openOk, execOk, failAt)
             /\ Retrieved(op, "facade", manager, k, n, failAt,
                          Retrieve(op, sessions[manager], handles, manager,
                                   openOk, execOk, n, k, failAt))
        ELSE /\ openOk /\ execOk /\ n = 0 /\ failAt = 0
             /\ last' = Returned(op, "facade", manager, k, 0, 0, Pre(manager),
                                 "NotConnectedError", NoResult, <<>>, NoGen)
             /\ UNCHANGED <<manager, sessions, handles, gens, connectedSince,
                            tracebacks>>

query == FacadeRetrieve("fetch_pandas")

query_dict == FacadeRetrieve("fetch_dict")

fetch_one == FacadeRetrieve("fetch_one")

fetch_all == FacadeRetrieve("fetch_all")

execute == FacadeRetrieve("execute")

\* A lazy module-level entry point (query_batches, query_dict_batches): the two
\* checks at call time, then the generator object is made and returned.
FacadeBatches(kind) ==
    \E g \in DOMAIN gens, k \in 1..FacadeMaxK :
        /\ gens[g].state = "none"
        /\ \A g2 \in 1..(g - 1) : gens[g2].state # "none"
        /\ IF /\ ensure_connected(manager, sessions)
              /\ ConnectionManager_ensure_connected(manager, sessions)
           THEN /\ gens' = [gens EXCEPT ![g] = NewGen(kind, manager, k)]
                /\ last' = Returned("batches", "facade", manager, k, 0, 0,
                                    Pre(manager), "ok", "generator", <<>>, gens'[g])
           ELSE /\ last' = Returned("batches", "facade", manager, k, 0, 0,
                                    Pre(manager), "NotConnectedError", NoResult,
                                    <<>>, NoGen)
                /\ UNCHANGED gens
        /\ UNCHANGED <<manager, sessions, handles, connectedSince, tracebacks>>

query_batches == FacadeBatches("pandas")

query_dict_batches == FacadeBatches("dict")

\* What is left of a generator in the consumer's hands after a call on it: one
\* whose frame has finished holds nothing any more.
Kept(g) == IF g.state # "done" THEN g ELSE NoGen

\* A variant in which the generators of one Session read from one shared
\* cursor position: a resumed generator continues where the furthest one is.
gen_next_shared(g, sess, hs, fault) ==
    LET far == CHOOSE p \in {gens[i].cur.pos : i \in DOMAIN gens} :
                   \A i \in DOMAIN gens : gens[i].cur.pos <= p
    IN  [sess |-> sess, hs |-> hs]
            @@ gen_loop([g EXCEPT !.cur.pos = far], fault, <<>>)

\* A later pull: the generator resumes after its yield and takes one more turn
\* of its loop; the Session is not touched.
gen_next(g, sess, hs, fault) ==
    [sess |-> sess, hs |-> hs] @@ gen_loop(g, fault, <<>>)

\* The state after next(generator) returned or raised: r is what the generator
\* did. When it finished, the generator lets go of its frame; after
\* StopIteration nothing holds the frame and the Session is finalized within
\* the call if nothing else holds it, after an error the traceback of the
\* exception keeps the frame and the Session.
Pulled(g, n, fault, closeRaises, r) ==
    LET s == gens[g].session
        gs2 == [gens EXCEPT ![g] = Kept(r.gen)]
        tb2 == Raised(tracebacks, s,
                      IF r.outcome = "StopIteration" THEN "ok" ELSE r.outcome)
        f == SnowflakeConnection_del([sessions EXCEPT ![s] = r.sess], r.hs, s,
                                     manager, gs2, tb2, closeRaises)
    IN  /\ f.calls = <<>> => ~closeRaises
        /\ sessions' = f.ss
        /\ handles' = f.hs
        /\ gens' = gs2
        /\ tracebacks' = tb2
        /\ last' = Returned("next", "gen", s, gens[g].k, n,
                            IF fault THEN 1 ELSE 0, Pre(s), r.outcome,
                            r.result, r.calls \o f.calls, r.gen)
        /\ UNCHANGED <<manager, connectedSince>>

\* next(generator): the first pull runs the generator from its start, a later
\* one resumes it after its yield. When the generator finishes, its frame lets
\* go of the Session.
PullGen(g, maxRows) ==
    \E n \in 0..maxRows, openOk, execOk, fault, closeRaises \in BOOLEAN :
        /\ gens[g].state \in {"created", "suspended"}
        /\ LET gen == gens[g]
               s == gen.session
               first == gen.state = "created"
           IN  /\ IF first
                  THEN /\ (WouldOpen(sessions[s], handles) /\ openOk)
                              => Len(handles) < MaxOpens
                       /\ ~WouldOpen(sessions[s], handles) => openOk
                       /\ ~openOk => execOk
                       /\ ~(openOk /\ execOk) => (n = 0 /\ ~fault)
                  ELSE openOk /\ execOk /\ n = gen.cur.n
               /\ Pulled(g, n, fault, closeRaises,
                         IF first
                         THEN gen_first(gen, sessions[s], handles, s, openOk,
                                        execOk, n, fault)
                         ELSE gen_next(gen, sessions[s], handles, fault))

\* next() on any of the generators in the consumer's hands.
Pull(maxRows) == \E g \in DOMAIN gens : PullGen(g, maxRows)

pull == Pull(MaxRows)

facade_pull == Pull(FacadeMaxRows)

\* The consumer abandons a lazy sequence: generator.close(), or the generator
\* object is dropped.
abandon ==
    \E g \in DOMAIN gens, closeRaises \in BOOLEAN :
        /\ gens[g].state \in {"created", "suspended"}
        /\ LET gen == gens[g]
               s == gen.session
               r == gen_close(gen)
               gs2 == [gens EXCEPT ![g] = Kept(r.gen)]
               f == SnowflakeConnection_del(sessions, handles, s, manager, gs2,
                                            tracebacks, closeRaises)
           IN  /\ f.calls = <<>> => ~closeRaises
               /\ sessions' = f.ss
               /\ handles' = f.hs
               /\ gens' = gs2
               /\ last' = Returned("close", "gen", s, gen.k, gen.cur.n, 0, Pre(s),
                                   "ok", NoResult, r.calls \o f.calls, r.gen)
               /\ UNCHANGED <<manager, connectedSince, tracebacks>>

\* The caller lets go of the exceptions it holds whose tracebacks refer to
\* Session s (the end of an except block, `del err`): the frames go with them,
\* and the Session is finalized when nothing else holds it.
drop_exception ==
    \E s \in tracebacks, closeRaises \in BOOLEAN :
        LET tb2 == tracebacks \ {s}
            f == SnowflakeConnection_del(sessions, handles, s, manager, gens, tb2,
                                         closeRaises)
        IN  /\ f.calls = <<>> => ~closeRaises
            /\ sessions' = f.ss
            /\ handles' = f.hs
            /\ tracebacks' = tb2
            /\ last' = Returned("drop", "caller", s, None, 0, 0, Pre(s),
                                "ok", NoResult, f.calls, NoGen)
            /\ UNCHANGED <<manager, gens, connectedSince>>

\* What the method op hands its caller after connect() did c on Session s:
\* connect() and get_connection() return the driver handle, __enter__ returns
\* the Session itself (connection.py 161-162); nothing when connect() raised.
ConnectResult(op, s, c) ==
    IF op # "__enter__" THEN c.conn
    ELSE IF c.outcome = "ok" THEN [session |-> s] ELSE NoResult

\* The state after a method of Session s that only runs connect() returned or
\* raised.
SessionConnected(op, s, openOk) ==
    LET c == SnowflakeConnection_connect(sessions[s], handles, s, openOk)
    IN  /\ (WouldOpen(sessions[s], handles) /\ openOk) => Len(handles) < MaxOpens
        /\ ~WouldOpen(sessions[s], handles) => openOk
        /\ sessions' = [sessions EXCEPT ![s] = c.sess]
        /\ handles' = c.hs
        /\ last' = Returned(op, "direct", s, None, 0, 0,
                            Pre(s), c.outcome, ConnectResult(op, s, c), c.calls, NoGen)
        /\ tracebacks' = Raised(tracebacks, s, c.outcome)
        /\ UNCHANGED <<manager, gens, connectedSince>>

\* SnowflakeConnection.connect() / get_connection() on a Session the caller
\* holds.
session_connect ==
    \E s \in Direct, openOk \in BOOLEAN : SessionConnected("connect", s, openOk)

\* SnowflakeConnection.__enter__ on a Session the caller holds (`with session:`).
session_enter ==
    \E s \in Direct, openOk \in BOOLEAN : SessionConnected("__enter__", s, openOk)

\* SnowflakeConnection.disconnect() / __exit__ on a Session the caller holds.
session_disconnect ==
    \E s \in Direct, closeRaises \in BOOLEAN :
        LET d == SnowflakeConnection_disconnect(sessions[s], handles, closeRaises)
        IN  /\ d.calls = <<>> => ~closeRaises
            /\ sessions' = [sessions EXCEPT ![s] = d.sess]
            /\ handles' = d.hs
            /\ last' = Returned("disconnect", "direct", s, None, 0, 0,
                                Pre(s), d.outcome, NoResult, d.calls, NoGen)
            /\ UNCHANGED <<manager, gens, connectedSince, tracebacks>>

\* The keyword options a caller passes to execute_query: each of two keywords
\* is left out or given one of two values.
OptValues == {"x", "y"}

Opts == UNION {[S -> OptValues] : S \in SUBSET {"timeout", "params"}}

\* The state after execute_query returned or raised: q is what it did.
Queried(s, n, opts, q) ==
    /\ sessions' = [sessions EXCEPT ![s] = q.sess]
    /\ handles' = q.hs
    /\ last' = ReturnedFrom(opts, "execute_query", "direct", s, None, n, 0,
                            Pre(s), q.outcome, q.cur, q.calls, NoGen)
    /\ tracebacks' = Raised(tracebacks, s, q.outcome)
    /\ UNCHANGED <<manager, gens, connectedSince>>

\* SnowflakeConnection.execute_query(query, **opts) on a Session the caller
\* holds; the cursor goes to the caller.
session_execute_query ==
    \E s \in Direct, opts \in Opts, n \in 0..FacadeMaxRows, openOk, execOk \in BOOLEAN :
        /\ (WouldOpen(sessions[s], handles) /\ openOk) => Len(handles) < MaxOpens
        /\ ~WouldOpen(sessions[s], handles) => openOk
        /\ ~openOk => execOk
        /\ ~execOk => n = 0
        /\ Queried(s, n, opts,
                   execute_with(SnowflakeConnection_connect(sessions[s], handles,
                                                            s, openOk),
                                execOk, n, opts))

\* A DataRetriever method (execute: execute_query) called on a Session the
\* caller holds.
retrieve ==
    \E s \in Direct, op \in {"fetch_pandas", "fetch_dict", "fetch_one", "fetch_all", "execute"} :
        \E k \in Sizes(op), n \in 0..MaxRows, openOk, execOk \in BOOLEAN,
           failAt \in 0..(MaxRows + 1) :
            /\ Answers(sessions[s], op, k, n, openOk, execOk, failAt)
            /\ Retrieved(op, "direct", s, k, n, failAt,
                         Retrieve(op, sessions[s], handles, s, openOk, execOk,
                                  n, k, failAt))

\* DataRetriever.fetch_pandas_batches / fetch_dict_batches called on a Session
\* the caller holds: the generator object is made, nothing runs.
batches ==
    \E s \in Direct, g \in DOMAIN gens, k \in 1..MaxK, kind \in {"pandas", "dict"} :
        /\ gens[g].state = "none"
        /\ \A g2 \in 1..(g - 1) : gens[g2].state # "none"
        /\ gens' = [gens EXCEPT ![g] = NewGen(kind, s, k)]
        /\ last' = Returned("batches", "direct", s, k, 0, 0, Pre(s), "ok",
                            "generator", <<>>, gens'[g])
        /\ UNCHANGED <<manager, sessions, handles, connectedSince, tracebacks>>

\* The environment: the connection behind a handle some Session holds dies
\* (network loss, server-side session expiry).
driver_kill ==
    \E h \in 1..Len(handles) :
        /\ handles[h].alive
        /\ \E s \in DOMAIN sessions : sessions[s].connection = h
        /\ handles' = [handles EXCEPT ![h].alive = FALSE]
        /\ UNCHANGED <<manager, sessions, gens, last, connectedSince, tracebacks>>

\* The module-level facade and the lazy sequences it hands out.
Next ==
    \/ connect
    \/ disconnect
    \/ query
    \/ query_dict
    \/ fetch_one
    \/ fetch_all
    \/ execute
    \/ query_batches
    \/ query_dict_batches
    \/ facade_pull
    \/ abandon
    \/ drop_exception
    \/ driver_kill

Spec == Init /\ [][Next]_vars

\* A Session the caller holds, used directly and through a DataRetriever's
\* materialized methods.
NextSession ==
    \/ session_connect
    \/ session_enter
    \/ session_disconnect
    \/ retrieve
    \/ drop_exception
    \/ driver_kill

SpecSession == InitSession /\ [][NextSession]_vars

\* A Session the caller holds and the lazy sequences of a DataRetriever on it.
NextLazy ==
    \/ batches
    \/ pull
    \/ abandon
    \/ drop_exception
    \/ session_disconnect
    \/ driver_kill

SpecLazy == InitSession /\ [][NextLazy]_vars

\* A Session the caller holds beside the module-level facade: connecting and
\* disconnecting at both levels.
NextLifecycle ==
    \/ connect
    \/ disconnect
    \/ session_connect
    \/ session_enter
    \/ session_disconnect
    \/ drop_exception
    \/ driver_kill

SpecLifecycle == InitSession /\ [][NextLifecycle]_vars

\* The Session objects made where the facade is only connected and
\* disconnected.
FacadeSessions == 3

\* The state after `import snowflake_connector`, with room for FacadeSessions
\* Session objects.
InitFacade ==
    /\ manager = None
    /\ sessions = [i \in 1..FacadeSessions |-> NoSession]
    /\ handles = <<>>
    /\ gens = [g \in 1..MaxGens |-> NoGen]
    /\ connectedSince = FALSE
    /\ tracebacks = {}
    /\ last = Returned("import", "", None, None, 0, 0,
                       [connected |-> FALSE, conn |-> None],
                       "ok", NoResult, <<>>, NoGen)

\* Any sequence of connect() and disconnect() calls on the facade, while
\* connections die and the caller keeps or drops the exceptions it got.
NextFacade ==
    \/ connect
    \/ disconnect
    \/ drop_exception
    \/ driver_kill

SpecFacade == InitFacade /\ [][NextFacade]_vars

\* A consumer that keeps pulling each lazy sequence it was handed until the
\* sequence ends (it never abandons one, and leaves none of them unpulled for
\* ever); each next() it starts returns. A pull always changes the generator
\* it is applied to, so the fairness condition is stated over gens.
NextPulling ==
    \/ batches
    \/ pull
    \/ drop_exception
    \/ session_disconnect
    \/ driver_kill

SpecPulling ==
    /\ InitSession
    /\ [][NextPulling]_vars
    /\ \A g \in 1..MaxGens : WF_gens(PullGen(g, MaxRows))

\* The state after the caller constructed a Session and a DataRetriever on it,
\* with room for TwoGens generator objects in the consumer's hands.
InitTwo ==
    /\ manager = None
    /\ sessions = [i \in 1..MaxSessions |->
                      IF i = 1 THEN SnowflakeConnection_init("direct", DirectArgs) ELSE NoSession]
    /\ handles = <<>>
    /\ gens = [g \in 1..TwoGens |-> NoGen]
    /\ connectedSince = FALSE
    /\ tracebacks = {}
    /\ last = Returned("__init__", "direct", 1, None, 0, 0,
                       [connected |-> FALSE, conn |-> None],
                       "ok", NoResult, <<>>, NoGen)

pull_two == Pull(TwoMaxRows)

\* A consumer holding several lazy sequences of one DataRetriever, pulling and
\* abandoning them in any interleaving.
NextTwo ==
    \/ batches
    \/ pull_two
    \/ abandon
    \/ drop_exception

SpecTwo == InitTwo /\ [][NextTwo]_vars

\* The state after `import snowflake_connector`, with room for OneSession
\* Session objects.
InitCredentials ==
    /\ manager = None
    /\ sessions = [i \in 1..OneSession |-> NoSession]
    /\ handles = <<>>
    /\ gens = [g \in 1..MaxGens |-> NoGen]
    /\ connectedSince = FALSE
    /\ tracebacks = {}
    /\ last = Returned("import", "", None, None, 0, 0,
                       [connected |-> FALSE, conn |-> None],
                       "ok", NoResult, <<>>, NoGen)

\* The module-level facade called with any arguments by a person who answers
\* its prompts, and the driver failing under it.
NextCredentials ==
    \/ connect_any
    \/ disconnect
    \/ query
    \/ fetch_one
    \/ query_batches
    \/ facade_pull
    \/ abandon
    \/ drop_exception
    \/ driver_kill

SpecCredentials == InitCredentials /\ [][NextCredentials]_vars

\* A Session the caller holds, connected, queried with execute_query and
\* disconnected directly.
NextQuery ==
    \/ session_connect
    \/ session_enter
    \/ session_execute_query
    \/ session_disconnect
    \/ drop_exception
    \/ driver_kill

SpecQuery == InitSession /\ [][NextQuery]_vars

\* The values a caller gives an optional parameter of SnowflakeConnection(...):
\* left at None, an empty string, or a name.
OptionalValues == {NoneStr, "", "NAME"}

\* The arguments SnowflakeConnection(...) is constructed with: the required
\* ones, and any values of warehouse, database, schema and role.
SessionArgs ==
    {[DirectArgs EXCEPT !.warehouse = w, !.database = d, !.schema = c, !.role = r] :
        w \in OptionalValues, d \in OptionalValues,
        c \in OptionalValues, r \in OptionalValues}

\* The state after the caller constructed a Session with any of those arguments.
InitParams ==
    /\ manager = None
    /\ \E a \in SessionArgs :
           sessions = [i \in 1..OneSession |-> SnowflakeConnection_init("direct", a)]
    /\ handles = <<>>
    /\ gens = [g \in 1..MaxGens |-> NoGen]
    /\ connectedSince = FALSE
    /\ tracebacks = {}
    /\ last = Returned("__init__", "direct", 1, None, 0, 0,
                       [connected |-> FALSE, conn |-> None],
                       "ok", NoResult, <<>>, NoGen)

\* A Session constructed with any optional parameters, connected and
\* disconnected by the caller.
NextParams ==
    \/ session_connect
    \/ session_enter
    \/ session_disconnect
    \/ drop_exception
    \/ driver_kill

SpecParams == InitParams /\ [][NextParams]_vars

\* ================================================================ the claims
RECURSIVE Sum(_)
Sum(seq) == IF seq = <<>> THEN 0 ELSE Head(seq) + Sum(Tail(seq))

\* The sizes of the batches a lazy sequence yielded, in emission order.
BatchSizes(g) == [i \in 1..Len(g.yielded) |-> BatchLen(g.kind, g.yielded[i])]

\* The last call was the pull that exhausted a lazy sequence (StopIteration).
Exhausted ==
    last.op = "next" /\ last.gen.state = "done" /\ last.gen.ended = "exhausted"

\* C1: a fully iterated lazy sequence over N rows with batch_size k yielded
\* ceil(N/k) batches, each of k rows but the last (N mod k rows, or k when k
\* divides N), none empty, N rows in all.
C1_BatchCountAndSizes ==
    Exhausted =>
        LET g == last.gen
            N == g.cur.n
            k == g.k
            sz == BatchSizes(g)
            m == Len(sz)
        IN  /\ m = Ceil(N, k)
            /\ \A i \in 1..(m - 1) : sz[i] = k
            /\ m > 0 => sz[m] = (IF N % k = 0 THEN k ELSE N % k)
            /\ \A i \in 1..m : sz[i] >= 1
            /\ Sum(sz) = N

\* A sequence over 5 rows with batch_size 2 was exhausted: batches of 2, 2, 1.
C1_Witness ==
    /\ Exhausted
    /\ last.gen.cur.n = 5
    /\ last.gen.k = 2
    /\ BatchSizes(last.gen) = <<2, 2, 1>>

\* C2: the cursor a pulled lazy sequence opened is open while the sequence is
\* suspended at a yield, and has been closed exactly once when the sequence has
\* ended, by exhaustion, by abandonment or by a fetch that raised; the call that
\* ends the sequence makes that one cursor.close() and no other call makes any.
C2_CursorClosedOnce ==
    /\ \A g \in 1..MaxGens :
           gens[g].state = "suspended" => (gens[g].cur.h # None /\ gens[g].cur.closes = 0)
    /\ last.op \in {"next", "close"} =>
           LET g == last.gen
           IN  IF g.state = "done" /\ g.cur.h # None
               THEN g.cur.closes = 1 /\ Count(last.calls, "cursor_close") = 1
               ELSE g.cur.closes = 0 /\ Count(last.calls, "cursor_close") = 0

\* A sequence was abandoned after a pulled batch, and its cursor closed.
C2_Witness ==
    /\ last.op = "close"
    /\ last.gen.ended = "abandoned"
    /\ Len(last.gen.yielded) >= 1
    /\ last.gen.cur.closes = 1

\* The last call was a chunked fetch_pandas / fetch_dict whose statement ran and
\* none of whose fetches raised.
ChunkedRun ==
    /\ last.op \in Chunked
    /\ last.k # None
    /\ last.outcome \notin {"NotConnectedError", "OpenError", "ExecError"}
    /\ last.fault = 0

\* What the unchunked call returns over n rows.
Unchunked(op, n) ==
    IF op = "fetch_pandas" THEN DataFrame(Rows(n), Description)
    ELSE DictRows(Description, Rows(n))

\* C3: a chunked fetch_pandas / fetch_dict over N >= 0 rows returns normally,
\* with the N rows in cursor order, the result of the unchunked call.
C3_ChunkedEqualsUnchunked ==
    ChunkedRun => (last.outcome = "ok" /\ last.result = Unchunked(last.op, last.n))

\* C4 as stated: a chunked fetch over N rows makes ceil(N/chunk_size) fetchmany
\* calls.
C4_CeilRequests ==
    ChunkedRun => Count(last.calls, "fetchmany") = Ceil(last.n, last.k)

\* C4, amended: a chunked fetch over N rows none of whose fetches raises makes
\* ceil(N/chunk_size) + 1 fetchmany calls, the last one returning the empty
\* chunk that ends the loop.
C4_CeilPlusOneRequests ==
    ChunkedRun => Count(last.calls, "fetchmany") = Ceil(last.n, last.k) + 1

\* fetch_pandas over 5 rows with chunk_size 2 made 4 fetchmany calls.
C4_Witness ==
    /\ ChunkedRun
    /\ last.op = "fetch_pandas"
    /\ last.n = 5
    /\ last.k = 2
    /\ Count(last.calls, "fetchmany") = 4

\* The module-level query entry points (the lazy ones are "batches").
QueryOps == {"fetch_pandas", "fetch_dict", "fetch_one", "fetch_all", "execute", "batches"}

\* C5: a query entry point called when no facade connect() has succeeded since
\* start or since the last disconnect() raises the not-connected error at call
\* time and makes no driver call (no open, no cursor, no statement).
C5_NotConnected ==
    (last.via = "facade" /\ last.op \in QueryOps /\ ~last.pre.connected) =>
        (last.outcome = "NotConnectedError" /\ last.calls = <<>>)

\* query() was called after a connection had been opened and disconnected.
C5_Witness ==
    /\ last.via = "facade"
    /\ last.op = "fetch_pandas"
    /\ ~last.pre.connected
    /\ Len(handles) >= 1
    /\ last.outcome = "NotConnectedError"

\* C6: disconnect(), of a Session or of the facade, never raises; a handle that
\* is present gets one close() call, whose error is swallowed, and the Session
\* ends without handle and not connected; with no handle present the driver is
\* not called.
C6_DisconnectNeverRaises ==
    last.op = "disconnect" =>
        /\ last.outcome = "ok"
        /\ last.via = "facade" => manager = None
        /\ IF last.pre.conn # None
           THEN /\ Len(last.calls) = 1
                /\ last.calls[1].c = "close"
                /\ last.calls[1].h = last.pre.conn
                /\ handles[last.pre.conn].closes = 1
           ELSE last.calls = <<>>
        /\ last.s # None =>
               /\ sessions[last.s].connection = None
               /\ ~sessions[last.s].is_connected

\* A disconnect() whose close() raised.
C6_Witness ==
    /\ last.op = "disconnect"
    /\ last.calls # <<>>
    /\ ~last.calls[1].ok
    /\ last.outcome = "ok"

\* The materialized DataRetriever methods and execute.
RetrievalOps == {"fetch_pandas", "fetch_dict", "fetch_one", "fetch_all", "execute"}

\* The last call began with a liveness probe of the cached handle.
Probed ==
    /\ Len(last.calls) >= 2
    /\ last.calls[2].c = "execute"
    /\ last.calls[2].sql = "SELECT 1"

\* The same call made on a Session that was just constructed.
OnFreshSession ==
    Retrieve(last.op, SnowflakeConnection_init("direct", DirectArgs), <<>>, last.s, TRUE,
             last.outcome # "ExecError", last.n, last.k, last.fault)

\* The parameters the Session the last call was made on was constructed with
\* and stores.
Stored == sessions[last.s]

\* The parameter set p is made of the Session's stored parameters: account,
\* user, password and authenticator are there, and every parameter in it has
\* the value the Session stores, which is the one it was constructed with.
StoredParams(p) ==
    /\ {"account", "user", "password", "authenticator"} \subseteq DOMAIN p
    /\ DOMAIN p \subseteq DOMAIN DirectArgs
    /\ \A f \in DOMAIN p : p[f] = Stored[f] /\ p[f] = DirectArgs[f]

\* C7: a query on a Session whose cached handle fails its probe makes exactly
\* one driver open, right after the probe and before the statement is sent,
\* with the Session's stored parameters; the statement runs on the handle that
\* open returned, never on the dead one, and the caller gets the outcome and
\* result of the same call on a fresh Session; when the open fails its error
\* is the outcome and no statement is sent.
C7_OneReopen ==
    (last.op \in RetrievalOps /\ Probed /\ ~last.calls[2].ok) =>
        LET io == FirstPos(last.calls, "open")
        IN  /\ Count(last.calls, "open") = 1
            /\ io = 3
            /\ StoredParams(last.calls[io].params)
            /\ \A i \in 1..Len(last.calls) :
                   last.calls[i].sql = "query" =>
                       /\ i > io
                       /\ last.calls[io].ok
                       /\ last.calls[i].h = last.calls[io].h
                       /\ last.calls[i].h # last.pre.conn
            /\ ~last.calls[io].ok => last.outcome = "OpenError"
            /\ last.calls[io].ok =>
                   /\ last.outcome = OnFreshSession.outcome
                   /\ last.result = OnFreshSession.result

\* fetch_all found the cached handle dead, reopened and returned 2 rows.
C7_Witness ==
    /\ last.op = "fetch_all"
    /\ Probed
    /\ ~last.calls[2].ok
    /\ Count(last.calls, "open") = 1
    /\ last.calls[3].params =
           [account |-> "XY12345", user |-> "alice", password |-> "hunter2",
            authenticator |-> "snowflake"]
    /\ last.outcome = "ok"
    /\ last.result = Rows(2)

\* The handles Session s opened.
HandlesOf(s) == {h \in 1..Len(handles) : handles[h].session = s}

\* C8: a call on a Session whose cached handle passes its probe makes no driver
\* open and keeps the handle (connect() returns it); and a Session none of whose
\* handles died or was closed has opened at most one.
C8_ReuseWhenHealthy ==
    /\ (last.via = "direct" /\ Probed /\ last.calls[2].ok) =>
           /\ Count(last.calls, "open") = 0
           /\ sessions[last.s].connection = last.pre.conn
           /\ last.op = "connect" => (last.outcome = "ok" /\ last.result = last.pre.conn)
    /\ \A s \in 1..MaxSessions :
           (\A h \in HandlesOf(s) : handles[h].alive /\ handles[h].closes = 0)
               => Cardinality(HandlesOf(s)) <= 1

\* connect() on a connected Session returned the cached handle.
C8_Witness ==
    /\ last.op = "connect"
    /\ last.via = "direct"
    /\ Probed
    /\ last.calls[2].ok
    /\ last.pre.conn # None
    /\ last.result = last.pre.conn

\* C9: a Session has at most one handle it opened and did not close.
C9_AtMostOneUnclosedHandle ==
    \A s \in 1..MaxSessions :
        Cardinality({h \in HandlesOf(s) : handles[h].closes = 0}) <= 1

\* The Sessions made by the facade that hold a driver connection.
LiveFacadeSessions ==
    {s \in DOMAIN sessions :
        sessions[s].owner # "direct" /\ sessions[s].connection # None}

\* C10: whatever connect() and disconnect() calls were made on the facade, at
\* most one Session made by the facade holds an open connection, and of the
\* handles opened at most one has not been closed.
C10_AtMostOneLiveSession ==
    /\ Cardinality(LiveFacadeSessions) <= 1
    /\ LiveFacadeSessions \subseteq {manager}
    /\ Cardinality({h \in 1..Len(handles) : handles[h].closes = 0}) <= 1

\* connect() was called while the facade was connected: the handle held before
\* was closed and the new Session holds the only open one.
C10_Witness ==
    /\ last.op = "connect"
    /\ last.via = "facade"
    /\ last.pre.connected
    /\ last.pre.conn = 1
    /\ last.outcome = "ok"
    /\ handles[1].closes = 1
    /\ LiveFacadeSessions = {manager}
    /\ sessions[manager].connection = 2

\* The retrieval methods that hand back a materialized result.
MaterializedOps == {"fetch_pandas", "fetch_dict", "fetch_one", "fetch_all"}

\* The last call got a cursor from execute_query: the facade let it through,
\* the connection was there or opened, and the statement executed.
GotCursor == last.outcome \notin {"NotConnectedError", "OpenError", "ExecError"}

\* The handle the last call's statement was executed on (None: not executed).
QueryHandle ==
    IF \E i \in 1..Len(last.calls) :
           last.calls[i].c = "execute" /\ last.calls[i].sql = "query"
    THEN last.calls[CHOOSE i \in 1..Len(last.calls) :
                        last.calls[i].c = "execute" /\ last.calls[i].sql = "query"].h
    ELSE None

\* C11: a materialized retrieval that got a cursor closes it exactly once, as
\* the last thing it does, whether it returns, a fetch raises, or assembling
\* the result raises.
C11_MaterializedClosesCursor ==
    (last.op \in MaterializedOps /\ GotCursor) =>
        /\ Count(last.calls, "cursor_close") = 1
        /\ last.calls[Len(last.calls)].c = "cursor_close"
        /\ last.calls[Len(last.calls)].h = QueryHandle

\* A chunked fetch_dict whose second fetchmany raised closed its cursor.
C11_Witness ==
    /\ last.op = "fetch_dict"
    /\ last.k = 2
    /\ last.fault = 2
    /\ last.outcome = "FetchError"
    /\ Count(last.calls, "cursor_close") = 1

\* The last call's statement was sent to the driver and the driver raised.
ExecuteRaised ==
    /\ last.op \in RetrievalOps
    /\ last.outcome = "ExecError"

\* The calls of the last call that sent its statement.
QueryExecutes ==
    SelectSeq(last.calls, LAMBDA x : x.c = "execute" /\ x.sql = "query")

\* C12: when cursor.execute raises inside execute_query, the caller of the
\* retrieval method gets that error, the statement was sent once, and the
\* cursor opened for it has been closed.
C12_ExecuteErrorClosesCursor ==
    ExecuteRaised =>
        /\ Len(QueryExecutes) = 1
        /\ ~QueryExecutes[1].ok
        /\ Count(last.calls, "cursor_close") = 1

\* The last call got a cursor and none of its fetch calls raised.
FetchedCleanly == GotCursor /\ last.fault = 0

\* C13: fetch_one returns None over zero rows and the first delivered row
\* otherwise; fetch_all returns the delivered rows in order, the empty sequence
\* over zero rows; neither raises.
C13_FetchOneFetchAll ==
    /\ (last.op = "fetch_one" /\ FetchedCleanly) =>
           /\ last.outcome = "ok"
           /\ IF last.n = 0 THEN last.result = None
              ELSE last.result = Rows(last.n)[1]
    /\ (last.op = "fetch_all" /\ FetchedCleanly) =>
           /\ last.outcome = "ok"
           /\ Len(last.result) = last.n
           /\ last.result = Rows(last.n)

\* fetch_one over a result without rows returned None.
C13_Witness ==
    /\ last.op = "fetch_one"
    /\ FetchedCleanly
    /\ last.n = 0
    /\ last.outcome = "ok"
    /\ last.result = None
    /\ Count(last.calls, "fetchone") = 1

\* The rows of the batches a lazy sequence yielded, concatenated in emission
\* order.
BatchRows(g) ==
    Flatten([i \in 1..Len(g.yielded) |->
                IF g.kind = "pandas" THEN g.yielded[i].rows ELSE g.yielded[i]])

\* The first m rows the cursor of g delivers, in the shape g's batches hold them.
Delivered(g, m) ==
    IF g.kind = "pandas" THEN SubSeq(Rows(g.cur.n), 1, m)
    ELSE DictRows(Description, SubSeq(Rows(g.cur.n), 1, m))

\* C14: the batches a lazy sequence yielded, concatenated in emission order, are
\* the rows the cursor delivered so far in cursor order, and all N rows once
\* the sequence is exhausted: none dropped, repeated or reordered.
C14_BatchesAreCursorRows ==
    /\ \A g \in 1..MaxGens :
           gens[g].state = "suspended" =>
               BatchRows(gens[g]) = Delivered(gens[g], gens[g].cur.pos)
    /\ Exhausted => BatchRows(last.gen) = Delivered(last.gen, last.gen.cur.n)

\* A dict sequence over 5 rows with batch_size 2 was exhausted with all 5 rows.
C14_Witness ==
    /\ Exhausted
    /\ last.gen.kind = "dict"
    /\ last.gen.cur.n = 5
    /\ last.gen.k = 2
    /\ Len(BatchRows(last.gen)) = 5
    /\ BatchRows(last.gen) = DictRows(Description, Rows(5))

\* The column names a yielded batch carries: a table's column sequence, or the
\* keys of every mapping of a list of mappings.
CarriesColumns(kind, batch, names) ==
    IF kind = "pandas" THEN batch.columns = names
    ELSE \A i \in 1..Len(batch) :
             DOMAIN batch[i] = {names[j] : j \in 1..Len(names)}

\* C15: a lazy sequence reads cursor.description once, in its first pull, right
\* after the statement executed and before the first fetchmany; no later pull
\* reads it, and every batch yielded carries the names read then.
C15_ColumnNamesReadOnce ==
    /\ (last.op = "next" /\ last.gen.cur.h # None) =>
           LET d == FirstPos(last.calls, "description")
               f == FirstPos(last.calls, "fetchmany")
           IN  IF Count(last.calls, "execute") > 0
               THEN /\ Count(last.calls, "description") = 1
                    /\ d > 1
                    /\ last.calls[d - 1].c = "execute"
                    /\ last.calls[d - 1].sql = "query"
                    /\ f > 0 => d < f
               ELSE Count(last.calls, "description") = 0
    /\ \A g \in 1..MaxGens :
           \A i \in 1..Len(gens[g].yielded) :
               CarriesColumns(gens[g].kind, gens[g].yielded[i], gens[g].column_names)
    /\ \A i \in 1..Len(last.gen.yielded) :
           CarriesColumns(last.gen.kind, last.gen.yielded[i], Description)

\* A third batch was yielded by a pull that did not read the description.
C15_Witness ==
    /\ last.op = "next"
    /\ last.outcome = "ok"
    /\ Len(last.gen.yielded) = 3
    /\ Count(last.calls, "description") = 0
    /\ CarriesColumns(last.gen.kind, last.gen.yielded[3], Description)

\* A lazy sequence the consumer holds and has not seen the end of.
Pending(g) == gens[g].state \in {"created", "suspended"}

\* C16: a lazy sequence that the consumer keeps pulling ends: every pending
\* sequence eventually finishes, by StopIteration or by raising. The pull
\* that exhausts it made one fetchmany, which found the cursor at its end and
\* returned the empty chunk, then closed the cursor with no further fetchmany,
\* and yielded nothing; a finished sequence cannot be pulled again.
C16_PullingTerminates ==
    /\ [](Exhausted =>
            /\ last.outcome = "StopIteration"
            /\ last.result = NoResult
            /\ last.gen.cur.pos = last.gen.cur.n
            /\ Count(last.calls, "fetchmany") = 1
            /\ last.calls[Len(last.calls)].c = "cursor_close"
            /\ last.calls[Len(last.calls) - 1].c = "fetchmany"
            /\ Len(last.gen.yielded) = Ceil(last.gen.cur.n, last.gen.k))
    /\ \A g \in 1..MaxGens : Pending(g) ~> ~Pending(g)

\* A sequence over 5 rows was exhausted by the pull after its last batch.
C16_Witness ==
    /\ Exhausted
    /\ last.gen.cur.n = 5
    /\ last.gen.cur.pos = 5
    /\ last.gen.k = 1
    /\ Len(last.gen.yielded) = 5
    /\ gens[1].state = "none"

\* What holds of the lazy sequences in the consumer's hands at any time: each
\* suspended one has its cursor open and has yielded exactly the rows its own
\* cursor delivered so far; one call closes at most one cursor.
OwnCursorEach ==
    /\ \A g \in DOMAIN gens :
           gens[g].state = "suspended" =>
               /\ gens[g].cur.h # None
               /\ gens[g].cur.closes = 0
               /\ BatchRows(gens[g]) = Delivered(gens[g], gens[g].cur.pos)
    /\ Exhausted => BatchRows(last.gen) = Delivered(last.gen, last.gen.cur.n)
    /\ last.op \in {"next", "close"} => Count(last.calls, "cursor_close") <= 1

\* What a call on one lazy sequence does to the others: nothing. A first pull
\* that gets a cursor opened one new cursor and executed the statement once.
OwnCursorStep ==
    /\ \A g1, g2 \in DOMAIN gens :
           g1 # g2 => (gens'[g1] = gens[g1] \/ gens'[g2] = gens[g2])
    /\ \A g \in DOMAIN gens :
           (gens[g].state = "created" /\ gens'[g] # gens[g]
                /\ last'.op = "next" /\ last'.gen.cur.h # None) =>
               /\ Len(SelectSeq(last'.calls,
                                LAMBDA x : x.c = "cursor" /\ x.sql = "query")) = 1
               /\ Len(SelectSeq(last'.calls,
                                LAMBDA x : x.c = "execute" /\ x.sql = "query")) = 1

\* C17: every lazy sequence has a cursor of its own: its first pull executes
\* the statement on a new cursor; under any interleaving of pulls each sequence
\* yields the rows of its own cursor in order; and exhausting or abandoning one
\* closes its own cursor only and leaves every other sequence as it was.
C17_OwnCursor == []OwnCursorEach /\ [][OwnCursorStep]_vars

\* One sequence was abandoned after a batch, its cursor closed, while another,
\* created before it was pulled and suspended further on, keeps its cursor open.
C17_Witness ==
    /\ last.op = "close"
    /\ last.gen.cur.closes = 1
    /\ Len(last.gen.yielded) = 1
    /\ \E g \in DOMAIN gens :
           /\ gens[g].state = "suspended"
           /\ gens[g].cur.closes = 0
           /\ Len(gens[g].yielded) = 2
           /\ gens[g].cur.n = 3

\* The cursors the last call handed to its caller still open: the one
\* DataRetriever.execute() returns.
HandedOut == IF last.op = "execute" /\ last.outcome = "ok" THEN 1 ELSE 0

\* C20: when a connect() or a materialized retrieval on a Session returns or
\* raises, every cursor it opened, the probe's included, has been closed,
\* except the cursor execute() returns to its caller.
C20_ProbeCursorClosed ==
    (last.op \in RetrievalOps \cup {"connect"}) =>
        Count(last.calls, "cursor_close") + HandedOut >= Count(last.calls, "cursor")

\* The last call was a facade connect(...).
FacadeConnected == last.op = "connect" /\ last.via = "facade"

\* Keyword f was left out of the last connect() call, or passed as None.
Omitted(f) == f \notin DOMAIN last.args \/ last.args[f] = NoneStr

\* The questions the last call put to the Credential Source, in order.
Prompts == SelectSeq(last.calls, LAMBDA x : x.c \in {"get_input", "get_password"})

\* The prompt for the user raised (end of input, an interrupt), which ended the
\* last connect() before its next statement.
UserPromptRaised ==
    \E i \in 1..Len(last.calls) : last.calls[i].c = "get_input" /\ ~last.calls[i].ok

\* C18: a facade connect() asks for the user once when the user is left out
\* and not at all otherwise, likewise for the password (a connect() that the
\* prompt for the user ended by raising has not come to the password), asks
\* nothing else (nothing for account, warehouse or role), and constructs its
\* Session with the fallback account when account is left out or None and
\* with the supplied account otherwise.
C18_PromptsAndAccount ==
    FacadeConnected =>
        /\ Count(last.calls, "get_input") = (IF Omitted("user") THEN 1 ELSE 0)
        /\ Count(last.calls, "get_password") =
               (IF Omitted("password") /\ ~UserPromptRaised THEN 1 ELSE 0)
        /\ \A i \in 1..Len(Prompts) :
               \/ Prompts[i].c = "get_input"
                      /\ Prompts[i].sql = "Enter Snowflake username: "
               \/ Prompts[i].c = "get_password"
                      /\ Prompts[i].sql = "Enter Snowflake password: "
        /\ last.s # None =>
               sessions[last.s].account =
                   (IF Omitted("account") THEN DefaultAccount ELSE last.args.account)

\* A connect(account=None, password="hunter2", warehouse="WH") reached: the
\* user alone was asked for, the role was not, and the fallback account used.
C18_Witness ==
    /\ FacadeConnected
    /\ DOMAIN last.args = {"account", "password", "warehouse"}
    /\ last.args.account = NoneStr
    /\ last.args.password = "hunter2"
    /\ Len(Prompts) = 1
    /\ Prompts[1].c = "get_input"
    /\ sessions[last.s].account = DefaultAccount
    /\ sessions[last.s].user = "bob"
    /\ sessions[last.s].role = NoneStr

\* The secrets held by the Session objects made so far.
Secrets == {sessions[s].password : s \in DOMAIN sessions} \ {NoneStr}

\* The values interpolated into the records the last call logged.
LoggedValues ==
    UNION {{last.log[i].args[j] : j \in 1..Len(last.log[i].args)} :
           i \in 1..Len(last.log)}

\* C19: whatever the facade is called with and however the driver answers, no
\* record logged by connect, disconnect or a retrieval carries the password of
\* a Session among its interpolated values.
C19_SecretNeverLogged == LoggedValues \cap Secrets = {}

\* A query reached on a Session whose password was typed at the prompt: the
\* probe of the cached handle failed and so did the reopen, which logged the
\* warning, the Connecting line with account and user, and the driver's error.
C19_Witness ==
    /\ last.op = "fetch_pandas"
    /\ last.outcome = "OpenError"
    /\ sessions[last.s].password = "sesame"
    /\ Len(last.log) = 3
    /\ last.log[1].level = "warning"
    /\ last.log[2].args = <<DefaultAccount, "bob">>
    /\ last.log[3].level = "error"

\* The last call was execute_query on a Session the caller holds.
ExecuteQueried == last.op = "execute_query"

\* C21: execute_query on a Session without a handle begins with exactly one
\* driver open and no probe; on a Session whose handle is alive it opens
\* nothing; when it returns, it made one new cursor on the Session's handle,
\* executed the statement once on it with the caller's options unchanged, and
\* returned that cursor unclosed.
C21_ExecuteQueryConnects ==
    ExecuteQueried =>
        /\ last.pre.conn = None =>
               /\ Count(last.calls, "open") = 1
               /\ last.calls[1].c = "open"
               /\ \A i \in 1..Len(last.calls) : last.calls[i].sql # "SELECT 1"
               /\ last.calls[1].ok =>
                      /\ Len(last.calls) = 3
                      /\ last.calls[2].h = last.calls[1].h
        /\ (last.pre.conn # None /\ handles[last.pre.conn].alive) =>
               /\ Count(last.calls, "open") = 0
               /\ sessions[last.s].connection = last.pre.conn
        /\ last.outcome = "ok" =>
               LET m == Len(last.calls)
               IN  /\ last.calls[m - 1].c = "cursor"
                   /\ last.calls[m - 1].sql = "query"
                   /\ last.calls[m - 1].h = sessions[last.s].connection
                   /\ last.calls[m].c = "execute"
                   /\ last.calls[m].sql = "query"
                   /\ last.calls[m].h = sessions[last.s].connection
                   /\ last.calls[m].opts = last.args
                   /\ Len(QueryExecutes) = 1
                   /\ Count(last.calls, "cursor_close") = 0
                   /\ last.result.h = sessions[last.s].connection
                   /\ last.result.closes = 0

\* execute_query(query, timeout=..., params=...) reached on a Session that had
\* been disconnected: it opened the second handle and returned a cursor on it.
C21_Witness ==
    /\ ExecuteQueried
    /\ last.outcome = "ok"
    /\ last.pre.conn = None
    /\ Len(handles) = 2
    /\ handles[1].closes = 1
    /\ DOMAIN last.args = {"timeout", "params"}
    /\ last.args["timeout"] = "x"
    /\ last.args["params"] = "y"
    /\ last.result.h = 2

\* The opens the last call asked of the driver.
Opens == CallsOf(last.calls, "open")

\* C22: every parameter set passed to the driver's open holds account, user,
\* password and authenticator as the Session stores them, and holds each of
\* warehouse, database, schema and role exactly when a value for it was given
\* to the Session (it is not None), with that value.
C22_OpenParams ==
    \A i \in 1..Len(Opens) :
        /\ \A f \in {"account", "user", "password", "authenticator"} :
               /\ f \in DOMAIN Opens[i].params
               /\ Opens[i].params[f] = sessions[last.s][f]
        /\ \A f \in {"warehouse", "database", "schema", "role"} :
               /\ f \in DOMAIN Opens[i].params <=> sessions[last.s][f] # NoneStr
               /\ f \in DOMAIN Opens[i].params =>
                      Opens[i].params[f] = sessions[last.s][f]
        /\ DOMAIN Opens[i].params \subseteq
               {"account", "user", "password", "authenticator",
                "warehouse", "database", "schema", "role"}

\* The driver's open raised during the last call.
OpenFailed == \E i \in 1..Len(Opens) : ~Opens[i].ok

\* The last call ran the connect logic of a Session the caller holds.
RanConnect ==
    last.via = "direct" /\ last.op \in {"connect", "__enter__", "execute_query"}

\* C23, in a state: when the driver's open raised in connect(), on a first
\* connect or after a failed probe, the caller got the driver's open error,
\* one open was attempted and nothing after it, and the Session holds no
\* handle and is not connected.
OpenFailureClears ==
    (RanConnect /\ OpenFailed) =>
        /\ last.outcome = "OpenError"
        /\ Len(Opens) = 1
        /\ last.calls[Len(last.calls)].c = "open"
        /\ sessions[last.s].connection = None
        /\ ~sessions[last.s].is_connected

\* C23, in a step: a connect() that follows a failed open on the same Session
\* asks the driver for a new open, without a probe.
FreshAttempt ==
    (RanConnect /\ OpenFailed /\ last'.via = "direct"
        /\ last'.op \in {"connect", "__enter__"} /\ last'.s = last.s) =>
        /\ Len(last'.calls) = 1
        /\ last'.calls[1].c = "open"

\* C23: the two parts above.
C23_OpenFailure == []OpenFailureClears /\ [][FreshAttempt]_vars

\* A connect() reached whose probe of the cached handle failed and whose
\* reopen failed too.
C23_Witness ==
    /\ last.op = "connect"
    /\ last.via = "direct"
    /\ last.pre.conn = 1
    /\ Len(last.calls) = 3
    /\ last.calls[2].sql = "SELECT 1"
    /\ ~last.calls[2].ok
    /\ ~last.calls[3].ok
    /\ last.outcome = "OpenError"

\* C24: between the operations of a Session (its construction, connect,
\* get_connection, execute_query, disconnect, entering and leaving it as a
\* context manager), its connected flag is set exactly when it stores a handle.
C24_FlagIffHandle ==
    \A s \in DOMAIN sessions :
        sessions[s].is_connected <=> sessions[s].connection # None

\* A disconnect() reached whose close raised: the error was swallowed and both
\* the handle and the flag were cleared.
C24_Witness ==
    /\ last.op = "disconnect"
    /\ last.via = "direct"
    /\ last.pre.conn # None
    /\ Len(last.calls) = 1
    /\ ~last.calls[1].ok
    /\ sessions[last.s].connection = None
    /\ ~sessions[last.s].is_connected

\* C25: a call made while no facade connect() has succeeded since the last
\* disconnect() (or since the start), other than connect() itself, opens no
\* driver connection; in particular the first pull of a lazy sequence that was
\* handed out before the disconnect opens none.
C25_NoOpenAfterDisconnect ==
    (~last.pre.connected /\ last.op # "connect") => Count(last.calls, "open") = 0

\* C26, in a state: query_batches / query_dict_batches makes the not-connected
\* check when it is called and calls nothing on the driver; the sequence it
\* returns has no cursor as long as it has not been pulled, and one that is
\* abandoned unpulled never had a cursor opened or closed for it.
LazyDefers ==
    /\ (last.via = "facade" /\ last.op = "batches") =>
           /\ last.calls = <<>>
           /\ last.outcome \in {"ok", "NotConnectedError"}
           /\ ~last.pre.connected => last.outcome = "NotConnectedError"
           /\ last.outcome = "ok" =>
                  /\ last.gen.state = "created"
                  /\ last.gen.cur = NoCursor
           /\ last.outcome = "NotConnectedError" => last.gen = NoGen
    /\ \A g \in DOMAIN gens :
           gens[g].state = "created" =>
               (gens[g].cur = NoCursor /\ gens[g].yielded = <<>>)
    /\ (last.op = "close" /\ last.gen.cur = NoCursor) =>
           /\ Count(last.calls, "cursor") = 0
           /\ Count(last.calls, "execute") = 0
           /\ Count(last.calls, "cursor_close") = 0

\* C26, in a step: the pull that starts a sequence is the one that runs the
\* connect logic, opens the cursor and sends the statement.
FirstPullExecutes ==
    \A g \in DOMAIN gens :
        (gens[g].state = "created" /\ gens'[g] # gens[g] /\ last'.op = "next"
            /\ last'.outcome # "OpenError") =>
            /\ Len(SelectSeq(last'.calls,
                             LAMBDA x : x.c = "cursor" /\ x.sql = "query")) = 1
            /\ Len(SelectSeq(last'.calls,
                             LAMBDA x : x.c = "execute" /\ x.sql = "query")) = 1

\* C26: the two parts above.
C26_LazyDefers == []LazyDefers /\ [][FirstPullExecutes]_vars

\* query_batches reached on a connected facade: it returned a generator and
\* the driver was not called.
C26_Witness ==
    /\ last.via = "facade"
    /\ last.op = "batches"
    /\ last.outcome = "ok"
    /\ last.gen.kind = "pandas"
    /\ last.calls = <<>>
    /\ Len(handles) = 1
    /\ handles[1].alive

\* The facade holds no Session, or one for which the driver never returned a
\* handle: no connect() has succeeded for the Session the facade holds.
Unusable ==
    manager = None \/ \A h \in 1..Len(handles) : handles[h].session # manager

\* C27, in a state: a facade connect() whose open raised leaves the new, never
\* connected Session in place of the one held before, live or not.
FailedConnectReplaces ==
    (FacadeConnected /\ last.outcome = "OpenError") =>
        /\ manager = last.s
        /\ Unusable
        /\ ~ensure_connected(manager, sessions)

\* C27, in a step: from then until connect() is called again the facade stays
\* that way, and every query entry point called meanwhile fails with the
\* not-connected error without calling the driver.
StaysUnusable ==
    (Unusable /\ ~(last'.via = "facade" /\ last'.op = "connect")) =>
        /\ Unusable'
        /\ (last'.via = "facade" /\ last'.op \in QueryOps) =>
               (last'.outcome = "NotConnectedError" /\ last'.calls = <<>>)

\* C27: the two parts above.
C27_FailedConnect == []FailedConnectReplaces /\ [][StaysUnusable]_vars

\* A connect() reached that failed while the facade held a Session with a live
\* handle: that Session was replaced and its handle closed.
C27_Witness ==
    /\ FacadeConnected
    /\ last.outcome = "OpenError"
    /\ last.pre.conn # None
    /\ handles[last.pre.conn].alive
    /\ handles[last.pre.conn].closes = 1
    /\ manager = last.s
    /\ ~sessions[manager].is_connected

\* The last call's probe of the cached handle failed.
ProbeFailed ==
    \E i \in 1..Len(last.calls) :
        /\ last.calls[i].c = "execute"
        /\ last.calls[i].sql = "SELECT 1"
        /\ ~last.calls[i].ok

\* The facade holds a Session that was connected once and has lost its handle
\* to a failed reopen.
Lost ==
    /\ manager # None
    /\ ~sessions[manager].is_connected
    /\ \E h \in 1..Len(handles) : handles[h].session = manager

\* C28, in a state: a facade query whose probe failed and whose reopen failed
\* raised the driver's open error and left the facade's Session without a
\* handle.
ReopenFailureRaises ==
    (last.via = "facade" /\ last.op \in QueryOps /\ ProbeFailed /\ OpenFailed) =>
        /\ last.outcome = "OpenError"
        /\ Len(Opens) = 1
        /\ Lost

\* C28, in a step: from then until connect() is called again the facade is not
\* connected, and every query entry point called meanwhile fails with the
\* not-connected error without a probe or an open.
StaysLost ==
    (Lost /\ ~(last'.via = "facade" /\ last'.op = "connect")) =>
        /\ ~ConnectionManager_is_connected(manager', sessions')
        /\ (last' # last /\ last'.via = "facade" /\ last'.op \in QueryOps) =>
               (last'.outcome = "NotConnectedError" /\ last'.calls = <<>>)

\* C28: the two parts above.
C28_ReopenFailure == []ReopenFailureRaises /\ [][StaysLost]_vars

====
